---- MODULE Spec2Model ----
(***************************************************************************)
(* Equipment-type inference pipeline of cygnet_to_ignition:                *)
(*   runParseFAC            (parse_fac.py)             column summary      *)
(*   analyze_fac_attributes (attribute_analysis.py)    Phase 1             *)
(*   analyze_fac_descriptions (description_analysis.py) Phase 2            *)
(*   analyze_udc_bridge     (udc_bridge_analysis.py)   Phase 3             *)
(* Text is a sequence of one-character strings; NaN is the empty text.     *)
(* Fractions are kept exact as integer numerator/denominator and rounded   *)
(* where the code calls round().                                           *)
(***************************************************************************)
EXTENDS Integers, Sequences, FiniteSets, TLC

VARIABLES pc, fac_df, fac_summary, merged_df, output_detail,
          analysis_attributes, analysis_descriptions, analysis_udc,
          column_profiles, hierarchy_txt

vars == <<pc, fac_df, fac_summary, merged_df, output_detail,
          analysis_attributes, analysis_descriptions, analysis_udc,
          column_profiles, hierarchy_txt>>

(***************************************************************************)
(* Generic helpers                                                         *)
(***************************************************************************)
Min(a, b) == IF a <= b THEN a ELSE b

Abs(x) == IF x < 0 THEN -x ELSE x

Range(s) == {s[i] : i \in 1..Len(s)}

\* Python round(): n/d to the nearest integer, ties to even (d > 0).
RoundDiv(n, d) ==
    LET q == n \div d
        r == n % d
    IN  IF 2 * r < d THEN q
        ELSE IF 2 * r > d THEN q + 1
        ELSE IF q % 2 = 0 THEN q ELSE q + 1

\* sum(s), halving the sequence
RECURSIVE SumSeq(_)
SumSeq(s) ==
    IF s = <<>> THEN 0
    ELSE IF Len(s) = 1 THEN s[1]
    ELSE LET h == Len(s) \div 2
         IN  SumSeq(SubSeq(s, 1, h)) + SumSeq(SubSeq(s, h + 1, Len(s)))

\* the concatenation of the sequences of ss, halving the sequence
RECURSIVE Flatten(_)
Flatten(ss) ==
    IF ss = <<>> THEN <<>>
    ELSE IF Len(ss) = 1 THEN ss[1]
    ELSE LET h == Len(ss) \div 2
         IN  Flatten(SubSeq(ss, 1, h)) \o Flatten(SubSeq(ss, h + 1, Len(ss)))

\* s[:n]
Take(s, n) == SubSeq(s, 1, Min(n, Len(s)))

\* [x for x in s if Keep(x)]
Filter(s, Keep(_)) == SelectSeq(s, Keep)

\* Distinct elements of s in order of first appearance (dict keys, unique()).
Dedup(s) ==
    LET first == Filter([i \in 1..Len(s) |-> i], LAMBDA i : \A j \in 1..(i - 1) : s[j] # s[i])
    IN  [k \in 1..Len(first) |-> s[first[k]]]

\* sorted(s, key=Key, reverse=True) and sorted(s, key=lambda x: -Key(x)):
\* stable, larger keys first, equal keys in their original order.
SortDesc(s, Key(_)) ==
    LET n == Len(s)
        before(i) == {j \in 1..n : \/ Key(s[j]) > Key(s[i])
                                   \/ Key(s[j]) = Key(s[i]) /\ j < i}
    IN  [k \in 1..n |-> s[CHOOSE i \in 1..n : Cardinality(before(i)) = k - 1]]

(***************************************************************************)
(* Characters and text                                                     *)
(***************************************************************************)
NaN == <<>>

notna(cell) == cell # NaN

UpperSeq == <<"A", "B", "C", "D", "E", "F", "G", "H", "I", "J", "K", "L", "M",
              "N", "O", "P", "Q", "R", "S", "T", "U", "V", "W", "X", "Y", "Z">>

LowerSeq == <<"a", "b", "c", "d", "e", "f", "g", "h", "i", "j", "k", "l", "m",
              "n", "o", "p", "q", "r", "s", "t", "u", "v", "w", "x", "y", "z">>

Upper == Range(UpperSeq)

Lower == Range(LowerSeq)

Digit == {"0", "1", "2", "3", "4", "5", "6", "7", "8", "9"}

\* the class [_\s\-] of re.split
Separator == {"_", " ", "-"}

\* \w of the regular expression
WordChar == Upper \cup Lower \cup Digit \cup {"_"}

\* str.lower() on one character
LowerChar(c) ==
    IF c \in Upper THEN LowerSeq[CHOOSE i \in 1..26 : UpperSeq[i] = c] ELSE c

LowerWord(w) == [i \in 1..Len(w) |-> LowerChar(w[i])]

stop_words == {
    <<"t", "h", "e">>, <<"a">>, <<"a", "n">>, <<"a", "n", "d">>, <<"o", "r">>,
    <<"b", "u", "t">>, <<"i", "n">>, <<"o", "n">>, <<"a", "t">>, <<"t", "o">>,
    <<"f", "o", "r">>, <<"o", "f">>, <<"w", "i", "t", "h">>, <<"b", "y">>,
    <<"f", "r", "o", "m">>, <<"a", "s">>, <<"i", "s">>, <<"w", "a", "s">>,
    <<"a", "r", "e">>, <<"w", "e", "r", "e">>, <<"b", "e", "e", "n">>, <<"b", "e">>,
    <<"h", "a", "v", "e">>, <<"h", "a", "s">>, <<"h", "a", "d">>, <<"d", "o">>,
    <<"d", "o", "e", "s">>, <<"d", "i", "d">>, <<"w", "i", "l", "l">>,
    <<"w", "o", "u", "l", "d">>, <<"s", "h", "o", "u", "l", "d">>,
    <<"c", "o", "u", "l", "d">>, <<"m", "a", "y">>, <<"m", "i", "g", "h", "t">>,
    <<"m", "u", "s", "t">>, <<"c", "a", "n">>, <<"t", "h", "i", "s">>,
    <<"t", "h", "a", "t">>, <<"t", "h", "e", "s", "e">>, <<"t", "h", "o", "s", "e">>,
    <<"i">>, <<"y", "o", "u">>, <<"h", "e">>, <<"s", "h", "e">>, <<"i", "t">>,
    <<"w", "e">>, <<"t", "h", "e", "y">>, <<"n", "o", "t">>, <<"n", "o">>,
    <<"y", "e", "s">>, <<"n">>, <<"n", "a">>, <<"n", "a", "n">>, <<"n", "o", "n", "e">> }

\* the two-character tokens the tokenizer lets through
allowed_abbrevs == { <<"w", "t">>, <<"s", "d">>, <<"h", "p">>, <<"l", "p">> }

(***************************************************************************)
(* _tokenize_and_count                                                     *)
(***************************************************************************)
\* re.split(r'[_\s\-]+', text): the maximal runs of non-separator characters
\* (empty pieces yield no words and are left out).
RECURSIVE SplitFrom(_, _, _)
SplitFrom(text, p, cur) ==
    IF p > Len(text) THEN (IF cur = <<>> THEN <<>> ELSE <<cur>>)
    ELSE IF text[p] \in Separator
         THEN (IF cur = <<>> THEN <<>> ELSE <<cur>>) \o SplitFrom(text, p + 1, <<>>)
         ELSE SplitFrom(text, p + 1, Append(cur, text[p]))

Segments(text) == SplitFrom(text, 1, <<>>)

\* last index of the run of characters of class Cls that starts at p (p - 1 if none)
RECURSIVE RunEnd(_, _, _)
RunEnd(seg, p, Cls) ==
    IF p <= Len(seg) /\ seg[p] \in Cls THEN RunEnd(seg, p + 1, Cls) ELSE p - 1

\* (?=[A-Z][a-z]|\b) after a match that ends at index e on an upper-case letter
UpperLookahead(seg, e) ==
    \/ e + 2 <= Len(seg) /\ seg[e + 1] \in Upper /\ seg[e + 2] \in Lower
    \/ e + 1 > Len(seg)
    \/ seg[e + 1] \notin WordChar

\* End index of the match of  [A-Z]?[a-z]+|[A-Z]+(?=[A-Z][a-z]|\b)|[0-9]+
\* at position p, or 0 when no alternative matches there.
MatchEnd(seg, p) ==
    LET c == seg[p]
        upEnd == RunEnd(seg, p, Upper)
        ends == {e \in p..upEnd : UpperLookahead(seg, e)}
    IN  IF c \in Lower THEN RunEnd(seg, p, Lower)
        ELSE IF c \in Upper /\ p + 1 <= Len(seg) /\ seg[p + 1] \in Lower
             THEN RunEnd(seg, p + 1, Lower)
        ELSE IF c \in Upper /\ ends # {}
             THEN CHOOSE e \in ends : \A f \in ends : f <= e
        ELSE IF c \in Digit THEN RunEnd(seg, p, Digit)
        ELSE 0

\* re.findall over one segment
RECURSIVE FindAll(_, _)
FindAll(seg, p) ==
    IF p > Len(seg) THEN <<>>
    ELSE LET e == MatchEnd(seg, p)
         IN  IF e = 0 THEN FindAll(seg, p + 1)
             ELSE <<SubSeq(seg, p, e)>> \o FindAll(seg, e + 1)

RECURSIVE AllWords(_)
AllWords(segs) ==
    IF segs = <<>> THEN <<>> ELSE FindAll(Head(segs), 1) \o AllWords(Tail(segs))

isdigit(w) == w # <<>> /\ \A i \in 1..Len(w) : w[i] \in Digit

\* the filter of step 3: stop words, single characters, numbers, short fragments
KeepWord(w) ==
    /\ w # <<>>
    /\ w \notin stop_words
    /\ Len(w) > 1
    /\ ~isdigit(w)
    /\ ~(Len(w) = 2 /\ w \notin allowed_abbrevs)

\* the words one text contributes, in order
TextWords(text) ==
    LET words == AllWords(Segments(text))
        lowered == [i \in 1..Len(words) |-> LowerWord(words[i])]
    IN  IF text = NaN THEN <<>> ELSE Filter(lowered, KeepWord)

\* A Counter is a sequence of [word, count] in insertion order.
CounterKeys(cnt) == {cnt[i].word : i \in 1..Len(cnt)}

CounterGet(cnt, w) ==
    IF w \in CounterKeys(cnt)
    THEN (cnt[CHOOSE i \in 1..Len(cnt) : cnt[i].word = w]).count
    ELSE 0

\* Counter(): every word counted, keys in order of first occurrence
CountWords(words) ==
    LET keys == Dedup(words)
    IN  [k \in 1..Len(keys) |->
            [ word |-> keys[k],
              count |-> Cardinality({i \in 1..Len(words) : words[i] = keys[k]}) ]]

\* the Counter after update() with each of counters in turn
CounterUpdateAll(counters) ==
    LET keys == Dedup(Flatten([g \in 1..Len(counters) |->
                        [k \in 1..Len(counters[g]) |-> counters[g][k].word]]))
    IN  [k \in 1..Len(keys) |->
            [ word |-> keys[k],
              count |-> SumSeq([g \in 1..Len(counters) |-> CounterGet(counters[g], keys[k])]) ]]

CounterTotal(cnt) == SumSeq([i \in 1..Len(cnt) |-> cnt[i].count])

_tokenize_and_count(text_list) ==
    CountWords(Flatten([i \in 1..Len(text_list) |-> TextWords(text_list[i])]))

(***************************************************************************)
(* The facility table (pd.read_csv): headers and rows; a row maps every    *)
(* header to a cell, NaN where the file has no value.                      *)
(***************************************************************************)
HeaderSet(df) == Range(df.headers)

len(df) == Len(df.rows)

\* str(value) of a cell
Str(cell) == IF cell = NaN THEN <<"n", "a", "n">> ELSE cell

\* df[col].dropna() for the rows whose index is in idxs, in table order
ColumnValues(df, idxs, col) ==
    LET picked == Filter([i \in 1..len(df) |-> i],
                         LAMBDA i : i \in idxs /\ notna(df.rows[i][col]))
    IN  [k \in 1..Len(picked) |-> df.rows[picked[k]][col]]

(***************************************************************************)
(* runParseFAC: the column summary                                         *)
(***************************************************************************)
runParseFAC(df) ==
    LET total_rows == len(df)
        all == 1..total_rows
    IN  [ total_rows |-> total_rows,
          headers |-> df.headers,
          non_empty_counts |->
              [col \in HeaderSet(df) |->
                  [filled |-> Len(ColumnValues(df, all, col)), of |-> total_rows]],
          unique_counts |->
              [col \in HeaderSet(df) |-> Cardinality(Range(ColumnValues(df, all, col)))] ]

(***************************************************************************)
(* Phase 1: column profiling                                               *)
(***************************************************************************)
structural_names == {"site", "service", "is_active"}

descriptive_names == {"desc", "type", "category", "info0", "info1"}

\* the headers for which col_lower.startswith("attr") holds
attr_names == {"attr1", "attr2", "attr3", "attr4", "attr5", "attr6", "attr7"}

\* the headers for which col_lower.startswith("table") holds
table_names == {"table1", "table2"}

\* the headers for which col_lower.startswith("yes_no") holds
yes_no_names == {"yes_no1"}

\* fill_rate = filled / total as the pair (fnum, fden); fden = 0 stands for rate 0
_categorize_column(col, fnum, fden, unique_count, total_rows) ==
    IF col \in structural_names THEN "structural"
    ELSE IF col = "id" \/ 10 * unique_count > 8 * total_rows THEN "identity"
    ELSE IF col \in descriptive_names THEN "descriptive"
    ELSE IF col \in attr_names THEN
        IF fnum = 0 THEN "unused_attribute"
        ELSE IF 10 * fnum < fden THEN "rare_attribute"
        ELSE IF 2 * fnum > fden THEN "common_attribute"
        ELSE "moderate_attribute"
    ELSE IF col \in table_names THEN
        IF fnum = 0 THEN "unused_table" ELSE "table_ref"
    ELSE IF col \in yes_no_names THEN "boolean_flag"
    ELSE IF col = "comment" THEN "comment"
    ELSE "other"

\* fault variant: fill_score without abs()
fill_score_num_noabs(filled_count, total_rows) ==
    total_rows - (2 * filled_count - total_rows)

\* fill_score = 1.0 - abs(fill_rate - 0.5) * 2, as a numerator over total_rows
fill_score_num(filled_count, total_rows) ==
    total_rows - Abs(2 * filled_count - total_rows)

\* fault variant: unique_score without the cap at 1.0
unique_score_num_uncapped(unique_count, filled_count) == 2 * unique_count

\* unique_score = min(uniqueness_ratio * 2, 1.0), as a numerator over filled_count
unique_score_num(unique_count, filled_count) ==
    Min(2 * unique_count, filled_count)

\* round(fill_score * 0.4 + unique_score * 0.6, 4) in units of 0.0001
discriminative_score(filled_count, total_rows, unique_count) ==
    IF total_rows <= 0 \/ filled_count = 0 THEN 0
    ELSE IF unique_count <= 1 THEN 0
    ELSE RoundDiv(
            10000 * (2 * fill_score_num(filled_count, total_rows) * filled_count
                     + 3 * unique_score_num(unique_count, filled_count) * total_rows),
            5 * total_rows * filled_count)

ProfileColumn(summary, col) ==
    LET total_rows == summary.total_rows
        \* int(fill_info.split("/")[0])
        filled_count == summary.non_empty_counts[col].filled
        fnum == IF total_rows > 0 THEN filled_count ELSE 0
        unique_count == summary.unique_counts[col]
    IN  [ fill_rate |-> IF total_rows > 0 THEN RoundDiv(10000 * filled_count, total_rows) ELSE 0,
          filled_count |-> filled_count,
          unique_count |-> unique_count,
          discriminative_score |-> discriminative_score(filled_count, total_rows, unique_count),
          category |-> _categorize_column(col, fnum, total_rows, unique_count, total_rows) ]

\* a dict in header order: the sequence of [column, profile]
_profile_columns(summary) ==
    [i \in 1..Len(summary.headers) |->
        [column |-> summary.headers[i], profile |-> ProfileColumn(summary, summary.headers[i])]]

key_categories ==
    {"descriptive", "common_attribute", "moderate_attribute", "rare_attribute"}

\* score > 0.1, in units of 0.0001
score_threshold == 1000

_identify_key_attributes(profiles) ==
    LET cand == Filter(profiles,
                       LAMBDA e : /\ e.profile.category \in key_categories
                                  /\ e.profile.discriminative_score > score_threshold)
        attrs == [i \in 1..Len(cand) |->
                    [ column |-> cand[i].column,
                      score |-> cand[i].profile.discriminative_score,
                      fill_rate |-> cand[i].profile.fill_rate,
                      unique_count |-> cand[i].profile.unique_count,
                      category |-> cand[i].profile.category ]]
    IN  SortDesc(attrs, LAMBDA a : a.score)

(***************************************************************************)
(* Phase 1: attribute signatures and facility groups                       *)
(***************************************************************************)
\* top_n = min(20, len(key_attrs))
max_focus_columns == 20

\* sorted(signature_groups.items(), ...)[:50]
max_signature_patterns == 50

\* fault variant: the length of each cell's text in place of its presence
presence_row_by_length(row, focus_cols) ==
    [j \in 1..Len(focus_cols) |-> Len(row[focus_cols[j]])]

\* one row of presence_matrix: notna().astype(int) over the focus columns
presence_row(row, focus_cols) ==
    [j \in 1..Len(focus_cols) |-> IF notna(row[focus_cols[j]]) THEN 1 ELSE 0]

\* facilities[...] of one pattern: id, desc and type of the rows at indices
FacilityInfo(df, idx) ==
    [ id |-> IF "id" \in HeaderSet(df) THEN Str(df.rows[idx]["id"]) ELSE <<"#", idx>>,
      desc |-> IF "desc" \in HeaderSet(df) THEN Take(Str(df.rows[idx]["desc"]), 100)
               ELSE <<"N", "/", "A">>,
      type |-> IF "type" \in HeaderSet(df) THEN Str(df.rows[idx]["type"])
               ELSE <<"N", "/", "A">> ]

_discover_attribute_signatures(df, key_attrs) ==
    LET top_n == Min(max_focus_columns, Len(key_attrs))
        focus_cols == [j \in 1..top_n |-> key_attrs[j].column]
        sig_of == [i \in 1..len(df) |-> presence_row(df.rows[i], focus_cols)]
        \* signature_groups: keys in order of first appearance
        sig_keys == Dedup(sig_of)
        signature_groups ==
            [k \in 1..Len(sig_keys) |->
                [ sig |-> sig_keys[k],
                  indices |-> Filter([i \in 1..len(df) |-> i],
                                     LAMBDA i : sig_of[i] = sig_keys[k]) ]]
        ranked == Take(SortDesc(signature_groups, LAMBDA g : Len(g.indices)),
                       max_signature_patterns)
        pattern(g) ==
            LET filled == Filter(focus_cols,
                                 LAMBDA c : \E j \in 1..top_n : focus_cols[j] = c /\ g.sig[j] = 1)
                empty == Filter(focus_cols,
                                LAMBDA c : \E j \in 1..top_n : focus_cols[j] = c /\ g.sig[j] = 0)
                facilities == [m \in 1..Len(g.indices) |-> FacilityInfo(df, g.indices[m])]
            IN  [ signature_id |-> g.sig,
                  facility_count |-> Len(g.indices),
                  percent_of_total |-> RoundDiv(10000 * Len(g.indices), len(df)),
                  filled_columns |-> filled,
                  empty_columns |-> empty,
                  column_fill_count |-> Len(filled),
                  facilities |-> facilities,
                  sample_facilities |-> Take(facilities, 5) ]
    IN  [ total_unique_signatures |-> Len(signature_groups),
          columns_analyzed |-> focus_cols,
          top_patterns |-> [k \in 1..Len(ranked) |-> pattern(ranked[k])] ]

_group_by_signatures(signatures) ==
    LET top_patterns == signatures.top_patterns
        groups == [i \in 1..Len(top_patterns) |->
                    [ group_id |-> i,
                      facility_count |-> top_patterns[i].facility_count,
                      percent_of_total |-> top_patterns[i].percent_of_total,
                      key_filled_attributes |-> Take(top_patterns[i].filled_columns, 10),
                      attribute_count |-> top_patterns[i].column_fill_count,
                      facilities |-> top_patterns[i].facilities,
                      sample_facilities |-> top_patterns[i].sample_facilities ]]
    IN  [ total_groups |-> Len(groups),
          groups |-> groups,
          coverage |-> SumSeq([i \in 1..Len(groups) |-> groups[i].percent_of_total]) ]

\* dict.get(key, default)
Get(d, key, default) == IF key \in DOMAIN d THEN d[key] ELSE default

_trim_to_summary(results) ==
    LET key_attrs == Get(results, "key_attributes", <<>>)
        facility_groups == Get(results, "facility_groups", [groups |-> <<>>])
        groups == Get(facility_groups, "groups", <<>>)
    IN  [ total_facilities |-> results.total_facilities,
          key_attributes_count |-> Len(key_attrs),
          key_attributes |-> key_attrs,
          facility_groups_found |-> Get(facility_groups, "total_groups", 0),
          group_coverage_pct |-> Get(facility_groups, "coverage", 0),
          assumed_facility_groups |->
              [i \in 1..Len(groups) |->
                  [ group_id |-> groups[i].group_id,
                    facility_count |-> groups[i].facility_count,
                    percent_of_total |-> groups[i].percent_of_total,
                    key_attributes |-> Take(groups[i].key_filled_attributes, 5),
                    attribute_count |-> groups[i].attribute_count,
                    facilities |-> groups[i].facilities,
                    sample_facilities |-> Take(groups[i].sample_facilities, 5) ]] ]

analyze_fac_attributes(df, summary, detail) ==
    LET profiles == _profile_columns(summary)
        key_attrs == _identify_key_attributes(profiles)
        signatures == _discover_attribute_signatures(df, key_attrs)
        results == [ total_facilities |-> summary.total_rows,
                     column_profiles |-> profiles,
                     key_attributes |-> key_attrs,
                     attribute_signatures |-> signatures,
                     facility_groups |-> _group_by_signatures(signatures) ]
    IN  IF detail = "summary" THEN _trim_to_summary(results) ELSE results

(***************************************************************************)
(* Phase 2: keyword extraction                                             *)
(***************************************************************************)
\* the fallback analysis columns when Phase 1 supplies no key attributes
fallback_columns == {"desc", "type", "category", "info0", "info1"}

\* count > total_facilities * 0.75, as count * den > total_facilities * num
noise_threshold_num == 3

noise_threshold_den == 4

\* filtered_keywords.most_common(20)
max_top_keywords == 20

\* set(key_attr_names) | {'desc', 'id'}, restricted to the table's columns
AnalysisColumns(df, phase1) ==
    LET key_attr_objs == Get(phase1, "key_attributes", <<>>)
        key_attr_names == IF key_attr_objs # <<>>
                          THEN {key_attr_objs[i].column : i \in 1..Len(key_attr_objs)}
                          ELSE fallback_columns
    IN  (key_attr_names \cup {"desc", "id"}) \cap HeaderSet(df)

\* the rows selected by fac_df['id'].isin(facility_ids)
GroupRows(df, group) ==
    LET facilities == Get(group, "facilities", <<>>)
        facility_ids == {facilities[i].id : i \in 1..Len(facilities)}
    IN  {i \in 1..len(df) : df.rows[i]["id"] \in facility_ids}

\* what one column adds to all_text: its value once when the group holds a
\* single distinct value, every value otherwise
ColumnText(df, idxs, col) ==
    LET text_values == ColumnValues(df, idxs, col)
        unique_vals == Range(text_values)
    IN  IF Cardinality(unique_vals) = 1 THEN <<text_values[1]>> ELSE text_values

GroupText(df, group, available_cols) ==
    Flatten([k \in 1..Len(available_cols) |->
                ColumnText(df, GroupRows(df, group), available_cols[k])])

GroupKeywords(df, group, available_cols) ==
    _tokenize_and_count(GroupText(df, group, available_cols))

\* global_keyword_counts after the first pass over all groups
GlobalKeywordCounts(df, groups, available_cols) ==
    CounterUpdateAll([g \in 1..Len(groups) |-> GroupKeywords(df, groups[g], available_cols)])

is_noise(count, total_facilities) ==
    count * noise_threshold_den > total_facilities * noise_threshold_num

NoiseTerms(global_keyword_counts, total_facilities) ==
    {global_keyword_counts[i].word : i \in
        {j \in 1..Len(global_keyword_counts) :
            is_noise(global_keyword_counts[j].count, total_facilities)}}

\* round(count / len(facilities), 2) in units of 0.01
keyword_frequency(count, facility_count) == RoundDiv(100 * count, facility_count)

GroupKeywordData(df, group, available_cols, noise_terms) ==
    LET facilities == Get(group, "facilities", <<>>)
        keywords == GroupKeywords(df, group, available_cols)
        filtered_keywords == Filter(keywords, LAMBDA e : e.word \notin noise_terms)
        top_keywords == Take(SortDesc(filtered_keywords, LAMBDA e : e.count),
                             max_top_keywords)
    IN  [ group_id |-> group.group_id,
          facility_count |-> Len(facilities),
          total_words |-> CounterTotal(keywords),
          unique_words |-> Len(keywords),
          filtered_unique_words |-> Len(filtered_keywords),
          top_keywords |->
              [k \in 1..Len(top_keywords) |->
                  [ word |-> top_keywords[k].word,
                    count |-> top_keywords[k].count,
                    frequency |-> keyword_frequency(top_keywords[k].count, Len(facilities)) ]] ]

\* available_cols is the analysis-column set in the order the set is iterated
_extract_group_keywords(df, assumed_groups, available_cols) ==
    LET global_keyword_counts == GlobalKeywordCounts(df, assumed_groups, available_cols)
        noise_terms == NoiseTerms(global_keyword_counts, len(df))
    IN  [ groups |-> [g \in 1..Len(assumed_groups) |->
                        GroupKeywordData(df, assumed_groups[g], available_cols, noise_terms)],
          columns_analyzed |-> available_cols,
          noise_terms_filtered |-> noise_terms ]

(***************************************************************************)
(* Phase 2: semantic coherence                                             *)
(***************************************************************************)
\* sum(kw["count"] for kw in top_keywords[:5])
top_5_count(top_keywords) ==
    LET top == Take(top_keywords, 5) IN SumSeq([k \in 1..Len(top) |-> top[k].count])

\* fault variant: the top keyword frequency without the cap at 1.0
uncapped_frequency(freq) == freq

\* min(top_keyword_freq, 1.0) in units of 0.01
capped_frequency(freq) == Min(freq, 100)

\* coherence_score = concentration_ratio * 0.5 + min(top_keyword_freq, 1.0) * 0.5
\* as the exact fraction num / den
coherence_num(group_data) ==
    100 * top_5_count(group_data.top_keywords)
    + capped_frequency(group_data.top_keywords[1].frequency) * group_data.total_words

coherence_den(group_data) == 200 * group_data.total_words

\* fault variant: strict comparisons against the thresholds
confidence_level_strict(num, den) ==
    IF 10 * num > 7 * den THEN "high"
    ELSE IF 10 * num > 4 * den THEN "medium"
    ELSE "low"

confidence_level(num, den) ==
    IF 10 * num >= 7 * den THEN "high"
    ELSE IF 10 * num >= 4 * den THEN "medium"
    ELSE "low"

ValidateGroup(group_data) ==
    IF Len(group_data.top_keywords) = 0 \/ group_data.total_words = 0
    THEN [ group_id |-> group_data.group_id,
           coherence_score |-> 0,
           confidence |-> "none",
           reason |-> "No keywords found" ]
    ELSE LET num == coherence_num(group_data)
             den == coherence_den(group_data)
         IN  [ group_id |-> group_data.group_id,
               \* round(coherence_score, 3) in units of 0.001
               coherence_score |-> RoundDiv(1000 * num, den),
               confidence |-> confidence_level(num, den),
               concentration_ratio |->
                   RoundDiv(1000 * top_5_count(group_data.top_keywords), group_data.total_words),
               top_keyword_frequency |-> group_data.top_keywords[1].frequency,
               unique_word_count |-> group_data.unique_words ]

CountConfidence(validations, level) ==
    Cardinality({i \in 1..Len(validations) : validations[i].confidence = level})

_validate_semantic_coherence(group_keywords) ==
    LET groups == Get(group_keywords, "groups", <<>>)
        validations == [i \in 1..Len(groups) |-> ValidateGroup(groups[i])]
    IN  [ validations |-> validations,
          high_confidence_groups |-> CountConfidence(validations, "high"),
          medium_confidence_groups |-> CountConfidence(validations, "medium"),
          low_confidence_groups |-> CountConfidence(validations, "low") ]

(***************************************************************************)
(* Phase 2: equipment types                                                *)
(***************************************************************************)
\* needle in hay
Contains(hay, needle) ==
    \E p \in 1..(Len(hay) - Len(needle) + 1) : SubSeq(hay, p, p + Len(needle) - 1) = needle

\* " ".join(keywords)
RECURSIVE JoinWords(_)
JoinWords(words) ==
    IF words = <<>> THEN <<>>
    ELSE IF Len(words) = 1 THEN Head(words)
    ELSE Head(words) \o <<" ">> \o JoinWords(Tail(words))

\* str.title() of a lower-case word
Title(w) ==
    IF w = <<>> THEN w
    ELSE <<IF w[1] \in Lower THEN UpperSeq[CHOOSE i \in 1..26 : LowerSeq[i] = w[1]] ELSE w[1]>>
         \o Tail(w)

_generate_name_from_keywords(keywords) ==
    LET keyword_str == LowerWord(JoinWords(keywords))
    IN  IF keywords = <<>> THEN <<"U", "n", "k", "n", "o", "w", "n", " ", "E", "q", "u", "i", "p", "m", "e", "n", "t", " ", "T", "y", "p", "e">>
        ELSE IF Contains(keyword_str, <<"w", "e", "l", "l">>) THEN
            IF Contains(keyword_str, <<"p", "r", "o", "d", "u", "c", "t", "i", "o", "n">>) \/ Contains(keyword_str, <<"p", "r", "o", "d">>) THEN <<"P", "r", "o", "d", "u", "c", "t", "i", "o", "n", " ", "W", "e", "l", "l", "s">>
            ELSE IF Contains(keyword_str, <<"i", "n", "j", "e", "c", "t", "i", "o", "n">>) \/ Contains(keyword_str, <<"i", "n", "j", "e", "c", "t", "o", "r">>) THEN <<"I", "n", "j", "e", "c", "t", "i", "o", "n", " ", "W", "e", "l", "l", "s">>
            ELSE IF Contains(keyword_str, <<"w", "a", "t", "e", "r">>) THEN <<"W", "a", "t", "e", "r", " ", "W", "e", "l", "l", "s">>
            ELSE <<"W", "e", "l", "l", "s">>
        ELSE IF Contains(keyword_str, <<"m", "e", "t", "e", "r">>) \/ Contains(keyword_str, <<"m", "e", "t", "e", "r", "i", "n", "g">>) THEN
            IF Contains(keyword_str, <<"g", "a", "s">>) THEN <<"G", "a", "s", " ", "M", "e", "t", "e", "r", "s">>
            ELSE IF Contains(keyword_str, <<"f", "l", "o", "w">>) THEN <<"F", "l", "o", "w", " ", "M", "e", "t", "e", "r", "s">>
            ELSE <<"M", "e", "t", "e", "r", "s">>
        ELSE IF Contains(keyword_str, <<"s", "e", "p", "a", "r", "a", "t", "o", "r">>) \/ Contains(keyword_str, <<"s", "e", "p">>) THEN <<"S", "e", "p", "a", "r", "a", "t", "o", "r", "s">>
        ELSE IF Contains(keyword_str, <<"t", "a", "n", "k">>) \/ Contains(keyword_str, <<"s", "t", "o", "r", "a", "g", "e">>) THEN <<"T", "a", "n", "k", "s", "/", "S", "t", "o", "r", "a", "g", "e">>
        ELSE IF Contains(keyword_str, <<"c", "o", "m", "p", "r", "e", "s", "s", "o", "r">>) \/ Contains(keyword_str, <<"c", "o", "m", "p">>) THEN <<"C", "o", "m", "p", "r", "e", "s", "s", "o", "r", "s">>
        ELSE IF Contains(keyword_str, <<"p", "u", "m", "p">>) THEN <<"P", "u", "m", "p", "s">>
        ELSE IF Contains(keyword_str, <<"h", "e", "a", "t", "e", "r">>) \/ Contains(keyword_str, <<"t", "r", "e", "a", "t", "e", "r">>) THEN <<"H", "e", "a", "t", "e", "r", "s", "/", "T", "r", "e", "a", "t", "e", "r", "s">>
        ELSE Title(keywords[1]) \o <<" ", "E", "q", "u", "i", "p", "m", "e", "n", "t">>

\* validation_map / keyword_groups lookups: the last entry with the group id
LookupByGroup(entries, group_id) ==
    LET hits == {i \in 1..Len(entries) : entries[i].group_id = group_id}
    IN  IF hits = {} THEN [group_id |-> group_id]
        ELSE entries[CHOOSE i \in hits : \A j \in hits : j <= i]

EquipmentType(group, group_keywords, validations) ==
    LET keywords_data == LookupByGroup(Get(group_keywords, "groups", <<>>), group.group_id)
        validation_data == LookupByGroup(Get(validations, "validations", <<>>), group.group_id)
        top_keywords == Get(keywords_data, "top_keywords", <<>>)
        top3 == Take(top_keywords, 3)
        top_3_words == [k \in 1..Len(top3) |-> top3[k].word]
        facilities == Get(group, "facilities", <<>>)
        sample_facilities == Take(facilities, 3)
    IN  [ equipment_type_id |-> group.group_id,
          suggested_name |-> _generate_name_from_keywords(top_3_words),
          keywords |-> top_3_words,
          facility_count |-> group.facility_count,
          percent_of_total |-> group.percent_of_total,
          facility_groups_matched |-> <<group.group_id>>,
          facility_ids |-> [i \in 1..Len(facilities) |-> Str(facilities[i].id)],
          key_attributes |-> group.key_attributes,
          confidence |-> Get(validation_data, "confidence", "unknown"),
          coherence_score |-> Get(validation_data, "coherence_score", 0),
          sample_facilities |-> sample_facilities,
          sample_descriptions |->
              [i \in 1..Len(sample_facilities) |-> sample_facilities[i].desc] ]

_generate_equipment_types(assumed_groups, group_keywords, validations) ==
    [g \in 1..Len(assumed_groups) |->
        EquipmentType(assumed_groups[g], group_keywords, validations)]

_trim_description_summary(results) ==
    LET equipment_types == Get(results, "assumed_equipment_types", <<>>)
        keyword_extraction == Get(results, "keyword_extraction", <<>>)
        group_validations == Get(results, "group_validations", <<>>)
    IN  [ total_facilities |-> results.total_facilities,
          phase_1_groups |-> results.phase_1_groups,
          assumed_equipment_types |->
              [i \in 1..Len(equipment_types) |->
                  [ equipment_type_id |-> equipment_types[i].equipment_type_id,
                    suggested_name |-> equipment_types[i].suggested_name,
                    keywords |-> equipment_types[i].keywords,
                    facility_count |-> equipment_types[i].facility_count,
                    percent_of_total |-> equipment_types[i].percent_of_total,
                    facility_ids |-> equipment_types[i].facility_ids,
                    confidence |-> equipment_types[i].confidence,
                    coherence_score |-> equipment_types[i].coherence_score ]],
          validation_summary |->
              [ high_confidence |-> Get(group_validations, "high_confidence_groups", 0),
                medium_confidence |-> Get(group_validations, "medium_confidence_groups", 0),
                low_confidence |-> Get(group_validations, "low_confidence_groups", 0) ],
          noise_filtering |->
              [ noise_terms_filtered |-> Get(keyword_extraction, "noise_terms_filtered", {}),
                columns_analyzed |-> Get(keyword_extraction, "columns_analyzed", <<>>) ] ]

\* available_cols: the analysis columns in the iteration order of the set
analyze_fac_descriptions(df, summary, phase1, available_cols, detail) ==
    LET assumed_groups == Get(phase1, "assumed_facility_groups", <<>>)
        group_keywords == _extract_group_keywords(df, assumed_groups, available_cols)
        validations == _validate_semantic_coherence(group_keywords)
        results == [ total_facilities |-> summary.total_rows,
                     phase_1_groups |-> Len(assumed_groups),
                     keyword_extraction |-> group_keywords,
                     group_validations |-> validations,
                     assumed_equipment_types |->
                         _generate_equipment_types(assumed_groups, group_keywords, validations) ]
    IN  IF detail = "summary" THEN _trim_description_summary(results) ELSE results

(***************************************************************************)
(* Phase 3: UDC coverage profiles                                          *)
(***************************************************************************)
\* coverage_pct >= 80 and coverage_pct >= 50
core_pct == 80

common_pct == 50

\* the class of a code carried by count of total_facilities member facilities
udc_class(count, total_facilities) ==
    IF 100 * count >= core_pct * total_facilities THEN "core"
    ELSE IF 100 * count >= common_pct * total_facilities THEN "common"
    ELSE "optional"

\* fault variant: every tag counted, not every facility
udc_facility_count_by_tag(eq_tags, udc) ==
    Cardinality({j \in 1..Len(eq_tags) : eq_tags[j].udc = udc})

\* len(stats["facilities"]): the distinct facilities of the rows that carry udc
udc_facility_count(eq_tags, udc) ==
    Cardinality({eq_tags[i].fac_id : i \in {j \in 1..Len(eq_tags) : eq_tags[j].udc = udc}})

udc_tag_count(eq_tags, udc) ==
    Cardinality({j \in 1..Len(eq_tags) : eq_tags[j].udc = udc})

\* fault variant: every row of the join table, whatever its facility
all_tags(rows, facility_ids) == rows

\* merged_df[merged_df["fac_id"].isin(facility_ids)]
member_tags(rows, facility_ids) ==
    Filter(rows, LAMBDA r : r.fac_id \in Range(facility_ids))

UdcProfile(rows, eq_type, detail) ==
    LET facility_ids == Get(eq_type, "facility_ids", <<>>)
        eq_tags == member_tags(rows, facility_ids)
        total_facilities == Len(facility_ids)
        \* rows with pd.notna(udc) and pd.notna(fac_id)
        valid == Filter(eq_tags, LAMBDA r : notna(r.udc) /\ notna(r.fac_id))
        udcs == Dedup([i \in 1..Len(valid) |-> valid[i].udc])
        udc_coverage ==
            [k \in 1..Len(udcs) |->
                LET count == udc_facility_count(valid, udcs[k])
                IN  [ udc |-> udcs[k],
                      count |-> count,
                      tag_count |-> udc_tag_count(valid, udcs[k]),
                      \* round(coverage_pct, 2) in units of 0.01 percent
                      coverage_pct |-> RoundDiv(10000 * count, total_facilities),
                      class |-> udc_class(count, total_facilities) ]]
        shown_ids == IF detail = "full" THEN facility_ids ELSE Take(facility_ids, 10)
    IN  IF Len(eq_tags) = 0
        THEN [ equipment_type_id |-> eq_type.equipment_type_id,
               suggested_name |-> eq_type.suggested_name,
               facility_count |-> Len(facility_ids),
               facility_ids |-> shown_ids,
               total_tags |-> 0,
               distinct_udcs |-> 0,
               udc_coverage |-> <<>>,
               warning |-> "No PNT tags found for these facilities" ]
        ELSE [ equipment_type_id |-> eq_type.equipment_type_id,
               suggested_name |-> eq_type.suggested_name,
               facility_count |-> total_facilities,
               facility_ids |-> shown_ids,
               total_tags |-> Len(eq_tags),
               distinct_udcs |-> Len(udcs),
               udc_coverage |-> SortDesc(udc_coverage, LAMBDA e : e.coverage_pct) ]

_validate_equipment_with_udcs(rows, equipment_types, detail) ==
    LET kept == Filter(equipment_types, LAMBDA t : Get(t, "facility_ids", <<>>) # <<>>)
    IN  [i \in 1..Len(kept) |-> UdcProfile(rows, kept[i], detail)]

(***************************************************************************)
(* Phase 3: Jaccard similarity and the hierarchy                           *)
(***************************************************************************)
\* a local variable: value is computed once and Rest is evaluated with it
Bind(value, Rest(_)) == CHOOSE result \in {Rest(v) : v \in {value}} : TRUE

\* fault variant: two empty sets count as identical
jaccard_empty_is_one(set_a, set_b) ==
    IF set_a = {} /\ set_b = {} THEN [num |-> 1, den |-> 1]
    ELSE [num |-> Cardinality(set_a \cap set_b), den |-> Cardinality(set_a \cup set_b)]

\* fault variant: the share of set_a found in set_b
jaccard_containment(set_a, set_b) ==
    IF set_a = {} THEN [num |-> 0, den |-> 1]
    ELSE [num |-> Cardinality(set_a \cap set_b), den |-> Cardinality(set_a)]

\* intersection / union as the fraction num / den; 0.0 is 0 / 1
_calculate_jaccard_similarity(set_a, set_b) ==
    IF set_a = {} /\ set_b = {} THEN [num |-> 0, den |-> 1]
    ELSE [num |-> Cardinality(set_a \cap set_b), den |-> Cardinality(set_a \cup set_b)]

\* jaccard > 0.60, as jaccard * den > num
hierarchy_threshold_num == 3

hierarchy_threshold_den == 5

\* merge_threshold = 0.80
merge_threshold_num == 4

merge_threshold_den == 5

\* the keys of profile["udc_coverage"] whose class is core or common
core_udcs(profile) ==
    LET udc_coverage == Get(profile, "udc_coverage", <<>>)
    IN  {udc_coverage[k].udc : k \in {m \in 1..Len(udc_coverage) :
                                        udc_coverage[m].class \in {"core", "common"}}}

\* set(profile["udc_coverage"].keys())
all_udcs(profile) ==
    LET udc_coverage == Get(profile, "udc_coverage", <<>>)
    IN  {udc_coverage[k].udc : k \in 1..Len(udc_coverage)}

\* list(eq_udc_sets.keys()): the profiled ids in order of first appearance
EqIds(udc_profiles) ==
    Dedup([p \in 1..Len(udc_profiles) |-> udc_profiles[p].equipment_type_id])

\* next(p for p in udc_profiles if p["equipment_type_id"] == eq_id)
FirstWithId(entries, eq_id) ==
    entries[CHOOSE i \in 1..Len(entries) :
               /\ entries[i].equipment_type_id = eq_id
               /\ \A j \in 1..(i - 1) : entries[j].equipment_type_id # eq_id]

\* eq_udc_sets[eq_id]: the set of the last profile with the id
LastWithId(entries, eq_id) ==
    entries[CHOOSE i \in 1..Len(entries) :
               /\ entries[i].equipment_type_id = eq_id
               /\ \A j \in (i + 1)..Len(entries) : entries[j].equipment_type_id # eq_id]

\* fault variant: a similarity of exactly 0.60 qualifies
is_hierarchy_pair_inclusive(jaccard) ==
    jaccard.num * hierarchy_threshold_den >= hierarchy_threshold_num * jaccard.den

\* jaccard > 0.60
is_hierarchy_pair(jaccard) ==
    jaccard.num * hierarchy_threshold_den > hierarchy_threshold_num * jaccard.den

\* round(jaccard, 3) in units of 0.001
similarity_of(jaccard) == RoundDiv(1000 * jaccard.num, jaccard.den)

\* the entry appended for eq_a, eq_b; shared_udcs is kept as a set, the order
\* of list(set) being arbitrary
Relationship(udc_profiles, eq_a, eq_b) ==
    LET set_a == core_udcs(LastWithId(udc_profiles, eq_a))
        set_b == core_udcs(LastWithId(udc_profiles, eq_b))
        profile_a == FirstWithId(udc_profiles, eq_a)
        profile_b == FirstWithId(udc_profiles, eq_b)
        a_is_parent == profile_a.facility_count > profile_b.facility_count
    IN  [ parent_id |-> IF a_is_parent THEN eq_a ELSE eq_b,
          child_id |-> IF a_is_parent THEN eq_b ELSE eq_a,
          similarity |-> similarity_of(_calculate_jaccard_similarity(set_a, set_b)),
          shared_udcs |-> set_a \cap set_b,
          shared_udc_count |-> Cardinality(set_a \cap set_b) ]

\* all_children: {r["child_id"] for r in relationships}
all_children(relationships) ==
    {relationships[r].child_id : r \in 1..Len(relationships)}

\* fault variant: the parents alone count as connected
all_parents(relationships) ==
    {relationships[r].parent_id : r \in 1..Len(relationships)}

\* all_connected: {r["parent_id"] for r in relationships} | all_children
all_connected(relationships) ==
    {relationships[r].parent_id : r \in 1..Len(relationships)}
        \cup all_children(relationships)

_build_hierarchy_tree(udc_profiles, equipment_types, detail) ==
    LET eq_ids == EqIds(udc_profiles)
        set_of(eq_id) == core_udcs(LastWithId(udc_profiles, eq_id))
        jaccard(eq_a, eq_b) == _calculate_jaccard_similarity(set_of(eq_a), set_of(eq_b))
        similarity_matrix ==
            [a \in Range(eq_ids) |-> [b \in Range(eq_ids) |->
                IF a = b THEN [num |-> 1, den |-> 1] ELSE jaccard(a, b)]]
        tree(relationships) ==
            LET children == all_children(relationships)
                connected == all_connected(relationships)
            IN  [ similarity_matrix |-> IF detail = "full" THEN similarity_matrix ELSE <<>>,
                  parent_child_relationships |-> relationships,
                  root_nodes |-> Filter(eq_ids, LAMBDA e : e \notin children
                                                              /\ e \in connected),
                  isolated_nodes |-> Filter(eq_ids, LAMBDA e : e \notin connected),
                  total_relationships |-> Len(relationships) ]
    IN  Bind(Flatten([i \in 1..Len(eq_ids) |->
                Flatten([j \in 1..Len(eq_ids) |->
                    IF eq_ids[i] # eq_ids[j] /\ is_hierarchy_pair(jaccard(eq_ids[i], eq_ids[j]))
                    THEN <<Relationship(udc_profiles, eq_ids[i], eq_ids[j])>>
                    ELSE <<>>])]),
             tree)

(***************************************************************************)
(* Phase 3: consolidation                                                  *)
(***************************************************************************)
\* fault variant: the core and common codes in place of all codes
core_and_common_udcs(profile) == core_udcs(profile)

\* the code set consolidation compares: every key of udc_coverage
consolidation_udcs(profile) == all_udcs(profile)

\* fault variant: a strict comparison against the threshold
exceeds_merge_threshold(jaccard) ==
    jaccard.num * merge_threshold_den > merge_threshold_num * jaccard.den

\* jaccard >= merge_threshold
meets_merge_threshold(jaccard) ==
    jaccard.num * merge_threshold_den >= merge_threshold_num * jaccard.den

\* fault variant: no type is ever skipped
never_merged(eq_id, merged_ids) == FALSE

\* eq_id in merged_ids
already_merged(eq_id, merged_ids) == eq_id \in merged_ids

MergedGroup(udc_profiles, equipment_types, eq_a, eq_b) ==
    LET set_a == consolidation_udcs(LastWithId(udc_profiles, eq_a))
        set_b == consolidation_udcs(LastWithId(udc_profiles, eq_b))
        jaccard == _calculate_jaccard_similarity(set_a, set_b)
        type_a == FirstWithId(equipment_types, eq_a)
        type_b == FirstWithId(equipment_types, eq_b)
    IN  [ new_group_id |-> eq_a,
          new_group_name |-> type_a.suggested_name \o <<" ", "+", " ">> \o type_b.suggested_name,
          merged_from |-> <<eq_a, eq_b>>,
          total_facilities |-> FirstWithId(udc_profiles, eq_a).facility_count
                               + FirstWithId(udc_profiles, eq_b).facility_count,
          \* jaccard * 100 to one decimal place, in units of 0.1 percent
          merge_reason |-> RoundDiv(1000 * jaccard.num, jaccard.den),
          combined_udcs |-> Cardinality(set_a \cup set_b) ]

\* fault variant: only the type next in the list is compared
next_position(i, n) == {i + 1} \cap (1..n)

\* eq_ids[i+1:]: the positions after i
later_positions(i, n) == (i + 1)..n

\* the scan over eq_ids from position i, with the ids merged so far
RECURSIVE MergeScan(_, _, _, _, _)
MergeScan(udc_profiles, equipment_types, i, merged_ids, merged_groups) ==
    LET eq_ids == EqIds(udc_profiles)
        eq_a == eq_ids[i]
        set_of(eq_id) == consolidation_udcs(LastWithId(udc_profiles, eq_id))
        partners == {j \in later_positions(i, Len(eq_ids)) :
                        /\ ~already_merged(eq_ids[j], merged_ids)
                        /\ meets_merge_threshold(
                               _calculate_jaccard_similarity(set_of(eq_a), set_of(eq_ids[j])))}
        first == CHOOSE j \in partners : \A k \in partners : j <= k
        merge(eq_b) ==
            [ merged_ids |-> merged_ids \cup {eq_a, eq_b},
              merged_groups |-> Append(merged_groups,
                                       MergedGroup(udc_profiles, equipment_types, eq_a, eq_b)) ]
        continue(scan) ==
            MergeScan(udc_profiles, equipment_types, i + 1, scan.merged_ids, scan.merged_groups)
    IN  IF i > Len(eq_ids) THEN [merged_ids |-> merged_ids, merged_groups |-> merged_groups]
        ELSE IF already_merged(eq_a, merged_ids) \/ partners = {}
        THEN MergeScan(udc_profiles, equipment_types, i + 1, merged_ids, merged_groups)
        ELSE Bind(merge(eq_ids[first]), continue)

_consolidate_groups(udc_profiles, equipment_types) ==
    LET groups(scan) ==
            LET unchanged_groups ==
                    Filter(EqIds(udc_profiles), LAMBDA e : e \notin scan.merged_ids)
            IN  [ merged_groups |-> scan.merged_groups,
                  unchanged_groups |-> unchanged_groups,
                  consolidation_summary |->
                      [ before |-> Len(equipment_types),
                        after |-> Len(unchanged_groups) + Len(scan.merged_groups),
                        merged |-> Cardinality(scan.merged_ids) ] ]
    IN  Bind(MergeScan(udc_profiles, equipment_types, 1, {}, <<>>), groups)

(***************************************************************************)
(* Phase 3: confidence analysis, recommendations, summary                  *)
(***************************************************************************)
\* the profiles whose equipment type has eq_type.get("confidence_level",
\* "unknown") equal to level
ConfidenceGroup(udc_profiles, equipment_types, level) ==
    Filter(udc_profiles,
           LAMBDA p : /\ \E t \in 1..Len(equipment_types) :
                            equipment_types[t].equipment_type_id = p.equipment_type_id
                      /\ Get(FirstWithId(equipment_types, p.equipment_type_id),
                             "confidence_level", "unknown") = level)

\* the coverage_pct values of the core codes of a profile
CoreCoverages(profile) ==
    LET udc_coverage == Get(profile, "udc_coverage", <<>>)
        core == Filter(udc_coverage, LAMBDA e : e.class = "core")
    IN  [k \in 1..Len(core) |-> core[k].coverage_pct]

RECURSIVE Product(_)
Product(s) == IF s = <<>> THEN 1 ELSE Head(s) * Product(Tail(s))

\* round(np.mean(core_coverages), 2), core_coverages the per-profile means
AvgCoreCoverage(profiles) ==
    LET with_core == Filter(profiles, LAMBDA p : CoreCoverages(p) # <<>>)
        lens == [k \in 1..Len(with_core) |-> Len(CoreCoverages(with_core[k]))]
        common == Product(lens)
        scaled == [k \in 1..Len(with_core) |->
                      SumSeq(CoreCoverages(with_core[k])) * (common \div lens[k])]
    IN  IF with_core = <<>> THEN 0
        ELSE RoundDiv(SumSeq(scaled), common * Len(with_core))

LevelAnalysis(profiles, equipment_types) ==
    LET udc_counts == [k \in 1..Len(profiles) |-> profiles[k].distinct_udcs]
        shown == Take(profiles, 5)
    IN  IF profiles = <<>> THEN [count |-> 0]
        ELSE [ count |-> Len(profiles),
               \* round(np.mean(udc_counts), 2) in units of 0.01
               avg_udc_count |-> RoundDiv(100 * SumSeq(udc_counts), Len(udc_counts)),
               min_udc_count |-> CHOOSE c \in Range(udc_counts) : \A d \in Range(udc_counts) : c <= d,
               max_udc_count |-> CHOOSE c \in Range(udc_counts) : \A d \in Range(udc_counts) : c >= d,
               avg_core_udc_coverage |-> AvgCoreCoverage(profiles),
               equipment_types |->
                   [k \in 1..Len(shown) |->
                       [ id |-> shown[k].equipment_type_id,
                         name |-> FirstWithId(equipment_types,
                                              shown[k].equipment_type_id).suggested_name,
                         distinct_udcs |-> shown[k].distinct_udcs,
                         facilities |-> shown[k].facility_count ]] ]

_analyze_confidence_levels(udc_profiles, equipment_types) ==
    [ high_confidence |->
          LevelAnalysis(ConfidenceGroup(udc_profiles, equipment_types, "high"), equipment_types),
      medium_confidence |->
          LevelAnalysis(ConfidenceGroup(udc_profiles, equipment_types, "medium"), equipment_types),
      low_confidence |->
          LevelAnalysis(ConfidenceGroup(udc_profiles, equipment_types, "low"), equipment_types) ]

\* where _generate_hierarchy_txt saves the tree
hierarchy_tree_path == "analytical_output/equipment_hierarchy.txt"

\* what the file system does: the directory is made and the file written,
\* os.makedirs raises, or open / write raises
tree_outcomes == {"written", "makedirs_fails", "write_fails"}

\* str.upper() of a confidence tier
upper(confidence) ==
    CASE confidence = "high" -> "HIGH"
      [] confidence = "medium" -> "MEDIUM"
      [] confidence = "low" -> "LOW"
      [] confidence = "none" -> "NONE"
      [] OTHER -> "UNKNOWN"

HasId(entries, eq_id) == \E i \in 1..Len(entries) : entries[i].equipment_type_id = eq_id

\* the lines of one node; a line is a record of its kind and the values printed
format_node(udc_profiles, equipment_types, eq_id, indent, is_last, prefix) ==
    LET eq_type == FirstWithId(equipment_types, eq_id)
        profile == FirstWithId(udc_profiles, eq_id)
        keywords == Get(eq_type, "keywords", <<>>)
        udc_coverage == Get(profile, "udc_coverage", <<>>)
        distinct_udcs == Get(profile, "distinct_udcs", 0)
        core_udcs_ == Filter(udc_coverage, LAMBDA e : e.class = "core")
        common_udcs == Filter(udc_coverage, LAMBDA e : e.class = "common")
        sample_facilities == Take(Get(profile, "facility_ids", <<>>), 3)
        child_prefix == <<prefix, IF is_last THEN "    " ELSE "|   ">>
        shown == Take(SortDesc(core_udcs_, LAMBDA e : e.coverage_pct), 5)
    IN  IF ~HasId(equipment_types, eq_id) \/ ~HasId(udc_profiles, eq_id) THEN <<>>
        ELSE <<[ kind |-> "node",
                 eq_id |-> eq_id,
                 prefix |-> prefix,
                 connector |-> IF is_last THEN "L-- " ELSE "+-- ",
                 confidence |-> upper(Get(eq_type, "confidence", "unknown")),
                 name |-> eq_type.suggested_name,
                 facilities |-> profile.facility_count,
                 total_tags |-> Get(profile, "total_tags", 0) ]>>
             \o (IF keywords # <<>>
                 THEN <<[kind |-> "keywords", prefix |-> child_prefix, keywords |-> keywords]>>
                 ELSE <<>>)
             \o (IF distinct_udcs > 0
                 THEN <<[ kind |-> "udcs", prefix |-> child_prefix, distinct |-> distinct_udcs,
                          core |-> Len(core_udcs_), common |-> Len(common_udcs) ]>>
                      \o (IF core_udcs_ # <<>>
                          THEN <<[kind |-> "core_udcs", prefix |-> child_prefix]>>
                               \o [k \in 1..Len(shown) |->
                                      [ kind |-> "core_udc", prefix |-> child_prefix,
                                        udc |-> shown[k].udc,
                                        \* {coverage_pct:.1f} in units of 0.1 percent
                                        coverage |-> RoundDiv(shown[k].coverage_pct, 10),
                                        facilities |-> shown[k].count ]]
                               \o (IF Len(core_udcs_) > 5
                                   THEN <<[ kind |-> "more_core_udcs", prefix |-> child_prefix,
                                            count |-> Len(core_udcs_) - 5 ]>>
                                   ELSE <<>>)
                          ELSE <<>>)
                 ELSE <<[kind |-> "no_udcs", prefix |-> child_prefix]>>)
             \o (IF sample_facilities # <<>>
                 THEN <<[ kind |-> "sample_facilities", prefix |-> child_prefix,
                          facilities |-> sample_facilities ]>>
                 ELSE <<>>)

\* a root node, its children and the bar that follows all but the last root
RootLines(hierarchy, udc_profiles, equipment_types, i) ==
    LET relationships == Get(hierarchy, "parent_child_relationships", <<>>)
        root_nodes == Get(hierarchy, "root_nodes", <<>>)
        is_last_root == i = Len(root_nodes)
        children == Filter(relationships, LAMBDA r : r.parent_id = root_nodes[i])
    IN  format_node(udc_profiles, equipment_types, root_nodes[i], 0, is_last_root, "")
        \o Flatten([j \in 1..Len(children) |->
               format_node(udc_profiles, equipment_types, children[j].child_id, 1,
                           j = Len(children), IF is_last_root THEN "    " ELSE "|   ")])
        \o (IF is_last_root THEN <<>> ELSE <<[kind |-> "bar"]>>)

\* the lines written to the file
TreeLines(hierarchy, udc_profiles, equipment_types) ==
    LET relationships == Get(hierarchy, "parent_child_relationships", <<>>)
        root_nodes == Get(hierarchy, "root_nodes", <<>>)
        isolated_nodes == Get(hierarchy, "isolated_nodes", <<>>)
        similarities == [r \in 1..Len(relationships) |-> relationships[r].similarity]
    IN  << [kind |-> "rule"], [kind |-> "title"], [kind |-> "rule"], [kind |-> "generated"],
           [kind |-> "total_equipment_types", count |-> Len(equipment_types)],
           [kind |-> "hierarchical_relationships", count |-> hierarchy.total_relationships],
           [kind |-> "rule"], [kind |-> "blank"] >>
        \o (IF root_nodes # <<>>
            THEN <<[kind |-> "roots_title"], [kind |-> "rule"], [kind |-> "blank"]>>
                 \o Flatten([i \in 1..Len(root_nodes) |->
                        RootLines(hierarchy, udc_profiles, equipment_types, i)])
                 \o <<[kind |-> "blank"]>>
            ELSE <<>>)
        \o (IF isolated_nodes # <<>>
            THEN <<[kind |-> "rule"], [kind |-> "isolated_title"], [kind |-> "rule"],
                   [kind |-> "blank"]>>
                 \o Flatten([i \in 1..Len(isolated_nodes) |->
                        format_node(udc_profiles, equipment_types, isolated_nodes[i], 0,
                                    i = Len(isolated_nodes), "")])
                 \o <<[kind |-> "blank"]>>
            ELSE <<>>)
        \o << [kind |-> "rule"], [kind |-> "summary_title"], [kind |-> "rule"],
               [kind |-> "root_categories", count |-> Len(root_nodes)],
               [kind |-> "hierarchical_children",
                count |-> Cardinality({relationships[r].child_id : r \in 1..Len(relationships)})],
               [kind |-> "isolated_types", count |-> Len(isolated_nodes)],
               IF relationships # <<>>
               THEN [kind |-> "average_similarity",
                     similarity |-> RoundDiv(SumSeq(similarities), Len(similarities))]
               ELSE [kind |-> "not_available"],
               [kind |-> "rule"] >>

\* nothing was written and nothing raised
NoTree == [raised |-> FALSE, written |-> FALSE]

\* the returned path, or the error text when open / write fails; os.makedirs
\* is outside the try block and its exception leaves the function
_generate_hierarchy_txt(hierarchy, udc_profiles, equipment_types, tree_io) ==
    IF tree_io = "makedirs_fails" THEN [raised |-> TRUE, written |-> FALSE]
    ELSE IF tree_io = "write_fails"
    THEN [ raised |-> FALSE, written |-> FALSE,
           path |-> "ERROR: Failed to write hierarchy tree" ]
    ELSE [ raised |-> FALSE, written |-> TRUE,
           path |-> hierarchy_tree_path,
           lines |-> TreeLines(hierarchy, udc_profiles, equipment_types) ]

_generate_udc_recommendations(results) ==
    LET total_relationships == results.equipment_hierarchy.total_relationships
        merged_count == results.consolidated_groups.consolidation_summary.merged
        low_conf == results.confidence_analysis.low_confidence.count
    IN  (IF total_relationships > 0
         THEN <<[about |-> "hierarchy", count |-> total_relationships]>> ELSE <<>>)
        \o (IF merged_count > 0
            THEN <<[about |-> "consolidation", count |-> merged_count]>> ELSE <<>>)
        \o (IF low_conf > 0
            THEN <<[about |-> "low_confidence", count |-> low_conf]>> ELSE <<>>)
        \o <<[about |-> "review_tree", count |-> 0], [about |-> "phase_4", count |-> 0]>>

_trim_udc_summary(results) ==
    LET profiles == results.equipment_udc_profiles
        top_profiles == Take(SortDesc(profiles, LAMBDA p : p.facility_count), 5)
        core_of(p) ==
            LET core == Filter(Get(p, "udc_coverage", <<>>), LAMBDA e : e.class = "core")
            IN  [k \in 1..Len(core) |-> core[k].udc]
    IN  [ total_equipment_types |-> results.total_equipment_types,
          total_tags_analyzed |-> results.total_tags_analyzed,
          hierarchy_tree_path |-> results.hierarchy_tree_path,
          udc_profile_summary |->
              [ total_profiles |-> Len(profiles),
                avg_udcs_per_type |->
                    IF profiles = <<>> THEN 0
                    ELSE RoundDiv(100 * SumSeq([p \in 1..Len(profiles) |->
                                                   profiles[p].distinct_udcs]), Len(profiles)),
                total_distinct_udcs |->
                    Cardinality(UNION {all_udcs(profiles[p]) : p \in 1..Len(profiles)}) ],
          top_equipment_types |->
              [k \in 1..Len(top_profiles) |->
                  [ id |-> top_profiles[k].equipment_type_id,
                    name |-> top_profiles[k].suggested_name,
                    facilities |-> top_profiles[k].facility_count,
                    distinct_udcs |-> top_profiles[k].distinct_udcs,
                    core_udcs |-> core_of(top_profiles[k]) ]],
          hierarchy_summary |->
              [ total_relationships |-> results.equipment_hierarchy.total_relationships,
                root_nodes_count |-> Len(results.equipment_hierarchy.root_nodes),
                isolated_nodes_count |-> Len(results.equipment_hierarchy.isolated_nodes) ],
          consolidation_summary |-> results.consolidated_groups.consolidation_summary,
          confidence_summary |->
              [ high_confidence_count |-> results.confidence_analysis.high_confidence.count,
                medium_confidence_count |-> results.confidence_analysis.medium_confidence.count,
                low_confidence_count |-> results.confidence_analysis.low_confidence.count ],
          recommendations |-> results.recommendations ]

\* an exception left the call: nothing was returned
Raised == [raised |-> TRUE]

\* fault variant: the list of equipment types is not looked at
equipment_types_unchecked(equipment_types) == FALSE

\* if not equipment_types
no_equipment_types(equipment_types) == equipment_types = <<>>

\* the call up to the tree: an error result, or the results of steps 1 to 4
udc_bridge_steps(merged, phase2, detail) ==
    LET equipment_types == Get(phase2, "assumed_equipment_types", <<>>)
        steps(udc_profiles) ==
            [ total_equipment_types |-> Len(equipment_types),
              total_tags_analyzed |-> Len(merged.rows),
              equipment_udc_profiles |-> udc_profiles,
              equipment_hierarchy |->
                  _build_hierarchy_tree(udc_profiles, equipment_types, detail),
              consolidated_groups |-> _consolidate_groups(udc_profiles, equipment_types),
              confidence_analysis |->
                  _analyze_confidence_levels(udc_profiles, equipment_types) ]
    IN  IF merged.status = "missing"
        THEN [ error |-> "Merged dataset not found",
               recommendation |-> "Run create-merged-validation-dataset first" ]
        ELSE IF merged.status = "unreadable"
        THEN [error |-> "Failed to load merged dataset"]
        ELSE IF no_equipment_types(equipment_types)
        THEN [ error |-> "No equipment types found in analysis_descriptions",
               recommendation |-> "Run analyze-descriptions first" ]
        ELSE Bind(_validate_equipment_with_udcs(merged.rows, equipment_types, detail), steps)

\* the rest of the call: the tree, the recommendations and the trimming; gives
\* what the call returned and what _generate_hierarchy_txt did
udc_bridge_output(results, phase2, detail, tree_io) ==
    LET equipment_types == Get(phase2, "assumed_equipment_types", <<>>)
        recommended(with_path) ==
            [k \in DOMAIN with_path \cup {"recommendations"} |->
                IF k = "recommendations" THEN _generate_udc_recommendations(with_path)
                ELSE with_path[k]]
        returned(complete) ==
            IF detail = "summary" THEN _trim_udc_summary(complete) ELSE complete
        with_path(tree) ==
            [k \in DOMAIN results \cup {"hierarchy_tree_path"} |->
                IF k = "hierarchy_tree_path" THEN tree.path ELSE results[k]]
        after_tree(tree) ==
            IF tree.raised THEN [returned |-> Raised, tree |-> tree]
            ELSE [ returned |-> Bind(Bind(with_path(tree), recommended), returned),
                   tree |-> tree ]
    IN  IF "error" \in DOMAIN results THEN [returned |-> results, tree |-> NoTree]
        ELSE Bind(_generate_hierarchy_txt(results.equipment_hierarchy,
                                          results.equipment_udc_profiles,
                                          equipment_types, tree_io),
                  after_tree)

\* the call with its effect on the file system
analyze_udc_bridge_run(merged, phase2, detail, tree_io) ==
    LET output(results) == udc_bridge_output(results, phase2, detail, tree_io)
    IN  Bind(udc_bridge_steps(merged, phase2, detail), output)

\* what the call returns
analyze_udc_bridge(merged, phase2, detail, tree_io) ==
    analyze_udc_bridge_run(merged, phase2, detail, tree_io).returned

(***************************************************************************)
(* Inputs: facility tables, join tables, output-detail settings            *)
(***************************************************************************)
MaxRows == 4

MaxWideRows == 52

MaxBridgeRows == 5

MaxHandoffRows == 3

MaxProfileRows == 8

T_Pump == <<"P", "u", "m", "p">>

T_GasMeter == <<"G", "a", "s", " ", "M", "e", "t", "e", "r">>

T_WT == <<"W", "T">>

T_PumpPump == <<"P", "u", "m", "p", " ", "p", "u", "m", "p">>

DigitSeq == <<"0", "1", "2", "3", "4", "5", "6", "7", "8", "9">>

RECURSIVE Decimal(_)
Decimal(n) == IF n < 10 THEN <<DigitSeq[n + 1]>> ELSE Decimal(n \div 10) \o <<DigitSeq[(n % 10) + 1]>>

\* the id of the facility on row i
FacId(i) == <<"F", "a", "c", "_">> \o Decimal(i)

Details == {"summary", "detailed", "full"}

NotRun == [not_run |-> TRUE]

\* small tables: every combination of a description and one attribute per row
SmallHeaders == <<"id", "desc", "attr1">>

DescTexts == {T_Pump, T_GasMeter}

AttrTexts == {NaN, T_PumpPump, T_WT}

SmallTable(n, cells) ==
    [ headers |-> SmallHeaders,
      rows |-> [i \in 1..n |->
                  [id |-> FacId(i), desc |-> cells[i][1], attr1 |-> cells[i][2]]] ]

\* tables of five facilities with ids A1..A5 (no word) and no attribute filled, whose
\* single group has a coherence of exactly 0.7 (k = 1) and exactly 0.4 (k = 2)
T_Tank == <<"T", "a", "n", "k">>

T_Valve == <<"V", "a", "l", "v", "e">>

T_Unit == <<"U", "n", "i", "t">>

ThresholdDescs(k) ==
    IF k = 1 THEN <<T_Pump, T_Pump, T_Tank, T_Tank, T_Valve>>
    ELSE <<T_Unit \o <<" ">> \o T_Pump, T_Unit \o <<" ">> \o T_Pump,
           T_Unit \o <<" ">> \o T_Tank, T_Unit \o <<" ">> \o T_Tank,
           T_Unit \o <<" ">> \o T_Unit>>

ThresholdTable(k) ==
    [ headers |-> SmallHeaders,
      rows |-> [i \in 1..Len(ThresholdDescs(k)) |->
                  [id |-> <<"A">> \o Decimal(i), desc |-> ThresholdDescs(k)[i], attr1 |-> NaN]] ]

\* wide tables: six attribute columns, row i filled after the bits of (i-1) mod d
WideHeaders == <<"id", "desc", "attr1", "attr2", "attr3", "attr4", "attr5", "attr6">>

WideAttrs == <<"attr1", "attr2", "attr3", "attr4", "attr5", "attr6">>

Bit(k, j) == (k \div (2 ^ (j - 1))) % 2

WideRow(i, d) ==
    [col \in Range(WideHeaders) |->
        IF col = "id" THEN FacId(i)
        ELSE IF col = "desc" THEN T_Pump
        ELSE LET j == CHOOSE m \in 1..Len(WideAttrs) : WideAttrs[m] = col
             IN  IF Bit((i - 1) % d, j) = 1
                 THEN (IF (i \div 2) % 2 = 0 THEN T_GasMeter ELSE T_WT)
                 ELSE NaN]

WideTable(n, d) == [headers |-> WideHeaders, rows |-> [i \in 1..n |-> WideRow(i, d)]]

\* bridge tables: two attribute columns filled in blocks of rows
BridgeHeaders == <<"id", "desc", "attr1", "attr2">>

BridgeTable(n, k1, k2) ==
    [ headers |-> BridgeHeaders,
      rows |-> [i \in 1..n |->
                  [ id |-> FacId(i),
                    desc |-> T_Pump,
                    attr1 |-> IF i <= k1 THEN (IF i % 2 = 1 THEN T_GasMeter ELSE T_WT) ELSE NaN,
                    attr2 |-> IF i > n - k2 THEN (IF i % 2 = 1 THEN T_WT ELSE T_Pump) ELSE NaN ]] ]

\* join tables: for every facility the codes of its tags, a facility id no
\* table holds, tags without a code, and repeated tags
UDC_X == <<"X">>

UDC_Y == <<"Y">>

UnknownFacId == <<"Z", "Z", "Z">>

\* code X on the first a facilities, code Y on the last b
BlockCodes(n, a, b) ==
    [i \in 1..n |-> (IF i <= a THEN {UDC_X} ELSE {}) \cup (IF i > n - b THEN {UDC_Y} ELSE {})]

JoinRows(n, codes_of, extra) ==
    Flatten([i \in 1..n |->
        (IF UDC_X \in codes_of[i] THEN <<[fac_id |-> FacId(i), udc |-> UDC_X]>> ELSE <<>>)
        \o (IF UDC_Y \in codes_of[i] THEN <<[fac_id |-> FacId(i), udc |-> UDC_Y]>> ELSE <<>>)])
    \o (IF extra = "unknown_facility" THEN <<[fac_id |-> UnknownFacId, udc |-> UDC_X]>>
        ELSE IF extra = "no_code" THEN <<[fac_id |-> FacId(1), udc |-> NaN]>>
        ELSE IF extra = "repeated_tag" /\ n > 0 /\ UDC_X \in codes_of[1]
             THEN <<[fac_id |-> FacId(1), udc |-> UDC_X]>>
        ELSE <<>>)

JoinExtras == {"none", "unknown_facility", "no_code", "repeated_tag"}

\* the iteration orders of a set of column names
ColumnOrders(cols) ==
    {o \in [1..Cardinality(cols) -> cols] : \A i, j \in 1..Cardinality(cols) : i # j => o[i] # o[j]}

\* for more than three columns: header order and its reverse
HeaderOrders(df, cols) ==
    LET h == Filter(df.headers, LAMBDA c : c \in cols)
    IN  {h, [i \in 1..Len(h) |-> h[Len(h) + 1 - i]]}

SetOrders(df, cols) ==
    IF Cardinality(cols) <= 3 THEN ColumnOrders(cols) ELSE HeaderOrders(df, cols)

(***************************************************************************)
(* The pipeline                                                            *)
(***************************************************************************)
InitPipeline ==
    /\ pc = "loaded"
    /\ fac_summary = NotRun
    /\ analysis_attributes = NotRun
    /\ analysis_descriptions = NotRun
    /\ analysis_udc = NotRun
    /\ column_profiles = NotRun
    /\ hierarchy_txt = NotRun

Init ==
    /\ InitPipeline
    /\ \/ \E n \in 0..MaxRows : \E cells \in [1..n -> DescTexts \X AttrTexts] :
             /\ fac_df = SmallTable(n, cells)
             /\ merged_df = [status |-> "ok",
                             rows |-> JoinRows(n, [i \in 1..n |-> {UDC_X}], "none")]
       \/ \E k \in 1..2 :
             /\ fac_df = ThresholdTable(k)
             /\ merged_df = [status |-> "ok", rows |-> <<>>]
    /\ output_detail \in [attributes : {"summary"}, descriptions : {"detailed"},
                          udc : {"summary"}]

InitWide ==
    /\ InitPipeline
    /\ \E n \in (MaxWideRows - 9)..MaxWideRows : \E d \in (n - 3)..n :
          /\ fac_df = WideTable(n, d)
          /\ merged_df = [status |-> "ok", rows |-> JoinRows(n, [i \in 1..n |-> {UDC_X}], "none")]
    /\ output_detail = [attributes |-> "summary", descriptions |-> "detailed", udc |-> "summary"]

InitBridge ==
    /\ InitPipeline
    /\ \E n \in 1..MaxBridgeRows : \E k1 \in {0, 2, 3} : \E k2 \in {0, 2} :
          /\ k1 <= n /\ k2 <= n
          /\ fac_df = BridgeTable(n, k1, k2)
          /\ \E a \in 0..n : \E b \in 0..n : \E extra \in JoinExtras :
                merged_df = [status |-> "ok", rows |-> JoinRows(n, BlockCodes(n, a, b), extra)]
    /\ output_detail \in [attributes : {"summary"}, descriptions : {"summary"},
                          udc : {"summary", "full"}]

RunParseFAC ==
    /\ pc = "loaded"
    /\ fac_summary' = runParseFAC(fac_df)
    /\ pc' = "parsed"
    /\ UNCHANGED <<fac_df, merged_df, output_detail, analysis_attributes,
                   analysis_descriptions, analysis_udc, column_profiles, hierarchy_txt>>

AnalyzeFacAttributes ==
    /\ pc = "parsed"
    /\ analysis_attributes' = analyze_fac_attributes(fac_df, fac_summary, output_detail.attributes)
    /\ pc' = "phase1"
    /\ UNCHANGED <<fac_df, fac_summary, merged_df, output_detail,
                   analysis_descriptions, analysis_udc, column_profiles, hierarchy_txt>>

AnalyzeFacDescriptions ==
    /\ pc = "phase1"
    /\ \E available_cols \in SetOrders(fac_df, AnalysisColumns(fac_df, analysis_attributes)) :
          analysis_descriptions' =
              analyze_fac_descriptions(fac_df, fac_summary, analysis_attributes,
                                       available_cols, output_detail.descriptions)
    /\ pc' = "phase2"
    /\ UNCHANGED <<fac_df, fac_summary, merged_df, output_detail,
                   analysis_attributes, analysis_udc, column_profiles, hierarchy_txt>>

AnalyzeUdcBridge ==
    /\ pc = "phase2"
    /\ \E results \in {udc_bridge_steps(merged_df, analysis_descriptions, output_detail.udc)} :
       \E tree_io \in tree_outcomes :
       \E run \in {udc_bridge_output(results, analysis_descriptions,
                                     output_detail.udc, tree_io)} :
          /\ analysis_udc' = run.returned
          /\ hierarchy_txt' = IF run.tree.written THEN run.tree.lines ELSE hierarchy_txt
    /\ pc' = "phase3"
    /\ UNCHANGED <<fac_df, fac_summary, merged_df, output_detail,
                   analysis_attributes, analysis_descriptions, column_profiles>>

Next ==
    \/ RunParseFAC
    \/ AnalyzeFacAttributes
    \/ AnalyzeFacDescriptions
    \/ AnalyzeUdcBridge

Spec == Init /\ [][Next]_vars

SpecWide == InitWide /\ [][Next]_vars

SpecBridge == InitBridge /\ [][Next]_vars

\* the pipeline with Phase 1 run at each of its detail levels
InitHandoff ==
    /\ InitPipeline
    /\ \E n \in 1..MaxHandoffRows : \E k1 \in {0, 2, 3} : \E k2 \in {0, 2} :
          /\ k1 <= n /\ k2 <= n
          /\ fac_df = BridgeTable(n, k1, k2)
          /\ merged_df = [status |-> "ok",
                          rows |-> JoinRows(n, [i \in 1..n |-> {UDC_X}], "none")]
    /\ output_detail \in [attributes : Details, descriptions : {"summary"}, udc : {"summary"}]

SpecHandoff == InitHandoff /\ [][Next]_vars

(***************************************************************************)
(* The column profiler on its own: a pre-computed summary of one column,   *)
(* as runParseFAC writes it (distinct <= filled <= total rows)             *)
(***************************************************************************)
ProfileHeaders == {"id", "desc", "attr1", "table1", "site", "comment"}

ColumnSummary(col, total_rows, filled, unique) ==
    [ total_rows |-> total_rows,
      headers |-> <<col>>,
      non_empty_counts |-> [c \in {col} |-> [filled |-> filled, of |-> total_rows]],
      unique_counts |-> [c \in {col} |-> unique] ]

InitProfile ==
    /\ pc = "summary"
    /\ fac_df = NotRun
    /\ merged_df = NotRun
    /\ output_detail = NotRun
    /\ analysis_attributes = NotRun
    /\ analysis_descriptions = NotRun
    /\ analysis_udc = NotRun
    /\ column_profiles = NotRun
    /\ hierarchy_txt = NotRun
    /\ \E col \in ProfileHeaders : \E total_rows \in 0..MaxProfileRows :
       \E filled \in 0..total_rows :
       \E unique \in (IF filled = 0 THEN {0} ELSE 1..filled) :
          fac_summary = ColumnSummary(col, total_rows, filled, unique)

ProfileColumns ==
    /\ pc = "summary"
    /\ column_profiles' = _profile_columns(fac_summary)
    /\ pc' = "profiled"
    /\ UNCHANGED <<fac_df, fac_summary, merged_df, output_detail,
                   analysis_attributes, analysis_descriptions, analysis_udc, hierarchy_txt>>

NextProfile == ProfileColumns

SpecProfile == InitProfile /\ [][NextProfile]_vars

(***************************************************************************)
(* The similarity of two code sets on its own                              *)
(***************************************************************************)
MaxCodes == 5

\* the k-th measurement code
Udc(k) == <<"U">> \o Decimal(k)

UdcCodes == {Udc(k) : k \in 1..MaxCodes}

InitJaccard ==
    /\ pc = "sets"
    /\ fac_df = NotRun
    /\ fac_summary = NotRun
    /\ merged_df = NotRun
    /\ output_detail = NotRun
    /\ analysis_attributes = NotRun
    /\ analysis_descriptions = NotRun
    /\ column_profiles = NotRun
    /\ hierarchy_txt = NotRun
    /\ \E set_a \in SUBSET UdcCodes : \E set_b \in SUBSET UdcCodes :
          analysis_udc = [set_a |-> set_a, set_b |-> set_b]

CalculateJaccard ==
    /\ pc = "sets"
    /\ analysis_udc' = [ set_a |-> analysis_udc.set_a,
                         set_b |-> analysis_udc.set_b,
                         jaccard |-> _calculate_jaccard_similarity(analysis_udc.set_a,
                                                                   analysis_udc.set_b) ]
    /\ pc' = "jaccard"
    /\ UNCHANGED <<fac_df, fac_summary, merged_df, output_detail,
                   analysis_attributes, analysis_descriptions, column_profiles,
                   hierarchy_txt>>

NextJaccard == CalculateJaccard

SpecJaccard == InitJaccard /\ [][NextJaccard]_vars

(***************************************************************************)
(* Phase 3 on its own: equipment types as Phase 2 hands them over, and a   *)
(* join table                                                              *)
(***************************************************************************)
MaxTypes == 3

\* what the join table holds for one type: the number of member facilities,
\* the codes every member carries and the codes only the first member carries
TypeShapes ==
    { [members |-> 0, strong |-> {}, weak |-> {}] }
    \cup [ members : {2, 3}, strong : {{}}, weak : {{}} ]
    \cup [ members : {2, 3},
           strong : {{Udc(1), Udc(2)}, {Udc(1), Udc(2), Udc(3)},
                     {Udc(1), Udc(2), Udc(3), Udc(4)},
                     {Udc(1), Udc(2), Udc(3), Udc(4), Udc(5)},
                     {Udc(4), Udc(5)}},
           weak : {{}} ]
    \cup [ members : {2, 3}, strong : {{Udc(1), Udc(2), Udc(3)}}, weak : {{Udc(4), Udc(5)}} ]

\* the facility ids of type t
MemberIds(t, shape) == [i \in 1..shape.members |-> FacId(10 * t + i)]

Phase2Tiers == <<"high", "medium", "low", "none">>

\* the equipment type t as _trim_description_summary emits it
HandedOverType(t, shape) ==
    [ equipment_type_id |-> t,
      suggested_name |-> IF t % 2 = 1 THEN T_Pump \o <<"s">> ELSE T_GasMeter \o <<"s">>,
      keywords |-> IF t % 2 = 1 THEN <<LowerWord(T_Pump)>> ELSE <<<<"g", "a", "s">>>>,
      facility_count |-> shape.members,
      percent_of_total |-> 0,
      facility_ids |-> MemberIds(t, shape),
      confidence |-> Phase2Tiers[((t - 1) % Len(Phase2Tiers)) + 1],
      coherence_score |-> 0 ]

\* the join rows of type t: one row per member and code it carries
TypeRows(t, shape) ==
    LET ids == MemberIds(t, shape)
        codes_of(i) == shape.strong \cup (IF i = 1 THEN shape.weak ELSE {})
        all == Filter([k \in 1..MaxCodes |-> Udc(k)],
                      LAMBDA u : u \in shape.strong \cup shape.weak)
    IN  Flatten([i \in 1..Len(ids) |->
            [k \in 1..Len(Filter(all, LAMBDA u : u \in codes_of(i))) |->
                [fac_id |-> ids[i], udc |-> Filter(all, LAMBDA u : u \in codes_of(i))[k]]]])

\* the Phase 2 result with n equipment types
HandedOver(n, shapes) ==
    [ total_facilities |-> SumSeq([t \in 1..n |-> shapes[t].members]),
      phase_1_groups |-> n,
      assumed_equipment_types |-> [t \in 1..n |-> HandedOverType(t, shapes[t])] ]

InitPhase3 ==
    /\ pc = "phase2"
    /\ fac_df = NotRun
    /\ fac_summary = NotRun
    /\ analysis_attributes = NotRun
    /\ analysis_udc = NotRun
    /\ column_profiles = NotRun
    /\ hierarchy_txt = NotRun
    /\ output_detail = [attributes |-> "summary", descriptions |-> "summary", udc |-> "full"]
    /\ \/ \E n \in 1..MaxTypes : \E shapes \in [1..n -> TypeShapes] :
             /\ analysis_descriptions = HandedOver(n, shapes)
             /\ merged_df = [ status |-> "ok",
                              rows |-> Flatten([t \in 1..n |-> TypeRows(t, shapes[t])]) ]
       \* no join table, or one that cannot be read
       \/ \E n \in 0..1 : \E shapes \in [1..n -> TypeShapes] :
             /\ analysis_descriptions = HandedOver(n, shapes)
             /\ merged_df \in [status : {"missing", "unreadable"}, rows : {<<>>}]
       \* a join table and no equipment type
       \/ \E shape \in TypeShapes :
             /\ analysis_descriptions = HandedOver(0, <<>>)
             /\ merged_df = [status |-> "ok", rows |-> TypeRows(1, shape)]

NextPhase3 == AnalyzeUdcBridge

SpecPhase3 == InitPhase3 /\ [][NextPhase3]_vars

(***************************************************************************)
(* Properties of Phase 1                                                   *)
(***************************************************************************)
Phase1Done == pc \in {"phase1", "phase2", "phase3"}

\* the facility groups Phase 1 returned
EmittedGroups ==
    IF "assumed_facility_groups" \in DOMAIN analysis_attributes
    THEN analysis_attributes.assumed_facility_groups
    ELSE analysis_attributes.facility_groups.groups

\* the columns the signatures are built over
SelectedColumns ==
    LET key_attrs == analysis_attributes.key_attributes
    IN  [j \in 1..Min(20, Len(key_attrs)) |-> key_attrs[j].column]

PresencePatterns ==
    {[j \in 1..Len(SelectedColumns) |-> fac_df.rows[i][SelectedColumns[j]] # NaN]
        : i \in 1..len(fac_df)}

\* the places (group, position) where the facility of row i is listed
Memberships(i) ==
    {gm \in {<<g, m>> : g \in 1..Len(EmittedGroups), m \in 1..MaxWideRows + 1} :
        /\ gm[2] <= Len(EmittedGroups[gm[1]].facilities)
        /\ EmittedGroups[gm[1]].facilities[gm[2]].id = fac_df.rows[i]["id"]}

\* C1: every facility of the table is a member of exactly one emitted group
C1_Partition ==
    Phase1Done => \A i \in 1..len(fac_df) : Cardinality(Memberships(i)) = 1

\* C2: Phase 1 emits one group per distinct presence signature, in
\* non-increasing order of facility count, numbered 1, 2, ... in that order
C2_AllGroupsRetained ==
    Phase1Done =>
        /\ Len(EmittedGroups) = Cardinality(PresencePatterns)
        /\ \A g \in 1..Len(EmittedGroups) : EmittedGroups[g].group_id = g
        /\ \A g \in 1..(Len(EmittedGroups) - 1) :
              EmittedGroups[g].facility_count >= EmittedGroups[g + 1].facility_count

\* C3: a non-empty table whose facilities all have the same presence pattern
\* over the selected columns (also when no column is selected) gives one group
\* that holds every facility, as a normal result
C3_SinglePattern_OneGroup ==
    (Phase1Done /\ len(fac_df) > 0 /\ Cardinality(PresencePatterns) = 1) =>
        /\ Len(EmittedGroups) = 1
        /\ EmittedGroups[1].facility_count = len(fac_df)
        /\ {EmittedGroups[1].facilities[m].id : m \in 1..Len(EmittedGroups[1].facilities)}
              = {fac_df.rows[i]["id"] : i \in 1..len(fac_df)}
        /\ Len(EmittedGroups[1].facilities) = len(fac_df)
        /\ "error" \notin DOMAIN analysis_attributes

\* no column qualifies, several facilities, one group
C3_Witness ==
    /\ pc = "phase1"
    /\ len(fac_df) >= 2
    /\ analysis_attributes.key_attributes = <<>>
    /\ Len(EmittedGroups) = 1
    /\ EmittedGroups[1].facility_count = len(fac_df)

(***************************************************************************)
(* Properties of the column profiler                                       *)
(***************************************************************************)
\* C4: every discriminative score lies in [0, 1]
C4_ScoreBounds ==
    pc = "profiled" =>
        \A i \in 1..Len(column_profiles) :
            /\ column_profiles[i].profile.discriminative_score >= 0
            /\ column_profiles[i].profile.discriminative_score <= 10000

\* a column at 50% fill whose values are half distinct scores exactly 1
C4_Witness ==
    /\ pc = "profiled"
    /\ \E i \in 1..Len(column_profiles) :
          /\ column_profiles[i].profile.discriminative_score = 10000
          /\ column_profiles[i].profile.fill_rate = 5000

\* 0.4 * (1 - 2*|fill_rate - 0.5|) + 0.6 * min(k * distinct / filled, 1.0),
\* rounded to four places, in units of 0.0001; 0 for an empty or constant column
BlendedScore(filled, total, distinct, k) ==
    IF total = 0 \/ filled = 0 \/ distinct <= 1 THEN 0
    ELSE LET moderate_fill == IF 2 * filled >= total THEN 2 * (total - filled) ELSE 2 * filled
             uniqueness == IF k * distinct >= filled THEN filled ELSE k * distinct
         IN  RoundDiv(4000 * moderate_fill * filled + 6000 * uniqueness * total, filled * total)

ScoreIsBlend(k) ==
    pc = "profiled" =>
        \A i \in 1..Len(column_profiles) :
            LET col == column_profiles[i].column
            IN  column_profiles[i].profile.discriminative_score =
                    BlendedScore(fac_summary.non_empty_counts[col].filled,
                                 fac_summary.total_rows,
                                 fac_summary.unique_counts[col], k)

\* C5 as stated: the uniqueness component is distinct / filled capped at 1.0
C5_Original == ScoreIsBlend(1)

\* C5 amended: the uniqueness component is 2 * distinct / filled capped at 1.0
C5_Amended == ScoreIsBlend(2)

\* a column whose uniqueness component stays below the cap
C5_Witness ==
    /\ pc = "profiled"
    /\ \E i \in 1..Len(column_profiles) :
          /\ column_profiles[i].profile.unique_count > 1
          /\ 2 * column_profiles[i].profile.unique_count < column_profiles[i].profile.filled_count
          /\ column_profiles[i].profile.discriminative_score > 0

(***************************************************************************)
(* Properties of Phase 2                                                   *)
(***************************************************************************)
Phase2Done == pc \in {"phase2", "phase3"}

\* the tokens of the text of the facility on row i, over the analysed columns
FacilityTokens(i) ==
    LET cols == AnalysisColumns(fac_df, analysis_attributes)
    IN  UNION {{e.word : e \in Range(_tokenize_and_count(ColumnValues(fac_df, {i}, c)))}
                  : c \in cols}

AllTokens == UNION {FacilityTokens(i) : i \in 1..len(fac_df)}

FacilitiesWith(w) == {i \in 1..len(fac_df) : w \in FacilityTokens(i)}

KeywordGroups == analysis_descriptions.keyword_extraction.groups

TopWords(g) == {KeywordGroups[g].top_keywords[k].word : k \in 1..Len(KeywordGroups[g].top_keywords)}

\* C6: a token found in the text of every facility is in no group's top keywords
C6_NoiseStability ==
    Phase2Done =>
        \A w \in AllTokens :
            FacilitiesWith(w) = 1..len(fac_df) =>
                \A g \in 1..Len(KeywordGroups) : w \notin TopWords(g)

\* C7: the filtered noise terms are exactly the tokens that occur in more than
\* three quarters of all facilities
C7_NoiseExclusive ==
    Phase2Done =>
        analysis_descriptions.keyword_extraction.noise_terms_filtered =
            {w \in AllTokens : 4 * Cardinality(FacilitiesWith(w)) > 3 * len(fac_df)}

Validations == analysis_descriptions.group_validations.validations

Scored(g) == "concentration_ratio" \in DOMAIN Validations[g]

\* C8: the coherence score of every group lies in [0, 1], and the top five
\* keywords never hold more than the group's total word count
C8_CoherenceBounds ==
    Phase2Done =>
        \A g \in 1..Len(Validations) :
            /\ Validations[g].coherence_score >= 0
            /\ Validations[g].coherence_score <= 1000
            /\ Scored(g) =>
                  /\ Validations[g].concentration_ratio <= 1000
                  /\ top_5_count(KeywordGroups[g].top_keywords) <= KeywordGroups[g].total_words

\* a scored group whose top keyword occurs more than once per facility, with
\* noise terms filtered out of its keywords
C8_Witness ==
    /\ pc = "phase2"
    /\ \E g \in 1..Len(Validations) :
          /\ Scored(g)
          /\ Validations[g].top_keyword_frequency > 100
          /\ KeywordGroups[g].filtered_unique_words < KeywordGroups[g].unique_words
          /\ Validations[g].coherence_score > 700

\* the tier of the coherence 0.5 * top5 / total + 0.5 * min(freq, 1.0), freq in
\* units of 0.01: compared as 100 * top5 + min(freq, 100) * total against 200 * total
TierOf(top5, total, freq) ==
    LET twice == 100 * top5 + (IF freq > 100 THEN 100 ELSE freq) * total
    IN  IF twice >= 140 * total THEN "high"
        ELSE IF twice >= 80 * total THEN "medium"
        ELSE "low"

EquipmentTypes == analysis_descriptions.assumed_equipment_types

UdcProfiles == analysis_udc.equipment_udc_profiles

\* the equipment type a profile was computed for
TypeOf(p) ==
    LET types == analysis_descriptions.assumed_equipment_types
    IN  types[CHOOSE t \in 1..Len(types) :
                 types[t].equipment_type_id = UdcProfiles[p].equipment_type_id]

\* the member facilities of a type that carry the code on some row of the join table
Carriers(members, udc) ==
    {f \in Range(members) :
        \E r \in 1..Len(merged_df.rows) :
            merged_df.rows[r].fac_id = f /\ merged_df.rows[r].udc = udc}

\* C10: the coverage of a code is the number of distinct member facilities that
\* carry it over the member count, at most 100%; the code is core from 80%,
\* common from 50% and optional below
C10_CoverageAndTier ==
    (pc = "phase3" /\ "equipment_udc_profiles" \in DOMAIN analysis_udc) =>
        \A p \in 1..Len(UdcProfiles) :
            LET members == TypeOf(p).facility_ids
                total == Len(members)
            IN  \A k \in 1..Len(UdcProfiles[p].udc_coverage) :
                    LET e == UdcProfiles[p].udc_coverage[k]
                        carriers == Cardinality(Carriers(members, e.udc))
                    IN  /\ e.count = carriers
                        /\ e.coverage_pct = RoundDiv(10000 * carriers, total)
                        /\ e.coverage_pct <= 10000
                        /\ e.class = "core" <=> 100 * carriers >= 80 * total
                        /\ e.class = "common" <=>
                              (100 * carriers >= 50 * total /\ 100 * carriers < 80 * total)
                        /\ e.class = "optional" <=> 100 * carriers < 50 * total

\* a type of five facilities: one code on exactly four of them (80%, core),
\* with one of the four carrying it on two tags
C10_Witness ==
    /\ pc = "phase3"
    /\ "equipment_udc_profiles" \in DOMAIN analysis_udc
    /\ \E p \in 1..Len(UdcProfiles) :
          /\ UdcProfiles[p].facility_count = 5
          /\ \E k \in 1..Len(UdcProfiles[p].udc_coverage) :
                /\ UdcProfiles[p].udc_coverage[k].count = 4
                /\ UdcProfiles[p].udc_coverage[k].tag_count = 5
                /\ UdcProfiles[p].udc_coverage[k].coverage_pct = 8000
                /\ UdcProfiles[p].udc_coverage[k].class = "core"

(***************************************************************************)
(* Properties of Phase 3: profiles of all types                            *)
(***************************************************************************)
Phase3Full == pc = "phase3" /\ "equipment_udc_profiles" \in DOMAIN analysis_udc

Phase3Types == analysis_descriptions.assumed_equipment_types

\* the profiles emitted for an equipment type
ProfilesOf(eq_id) ==
    {p \in 1..Len(UdcProfiles) : UdcProfiles[p].equipment_type_id = eq_id}

\* the join rows of the member facilities of a type
MatchingRows(eq_type) ==
    {r \in 1..Len(merged_df.rows) : merged_df.rows[r].fac_id \in Range(eq_type.facility_ids)}

\* C11: every equipment type handed to Phase 3 has exactly one coverage
\* profile; a type without a matching join row, a type without members
\* included, has a profile with distinct_udcs = 0 and the warning
C11_EveryTypeProfiled ==
    Phase3Full =>
        \A t \in 1..Len(Phase3Types) :
            /\ Cardinality(ProfilesOf(Phase3Types[t].equipment_type_id)) = 1
            /\ MatchingRows(Phase3Types[t]) = {} =>
                  \A p \in ProfilesOf(Phase3Types[t].equipment_type_id) :
                      /\ UdcProfiles[p].distinct_udcs = 0
                      /\ "warning" \in DOMAIN UdcProfiles[p]

\* the join table without the rows of facilities that belong to no type
MemberRowsOnly ==
    [ status |-> merged_df.status,
      rows |-> Filter(merged_df.rows,
                      LAMBDA r : \E t \in 1..Len(Phase3Types) :
                                    r.fac_id \in Range(Phase3Types[t].facility_ids)) ]

\* C12: join rows of a facility that is a member of no equipment type raise no
\* error and leave every profile as it is without them
C12_ForeignRowsIgnored ==
    Phase3Full =>
        /\ "error" \notin DOMAIN analysis_udc
        /\ UdcProfiles = _validate_equipment_with_udcs(MemberRowsOnly.rows, Phase3Types,
                                                       output_detail.udc)

\* a join table with a row of an unknown facility whose code no member of the
\* profiled type carries
C12_Witness ==
    /\ Phase3Full
    /\ \E r \in 1..Len(merged_df.rows) :
          /\ merged_df.rows[r].fac_id = UnknownFacId
          /\ \E p \in 1..Len(UdcProfiles) :
                /\ UdcProfiles[p].distinct_udcs > 0
                /\ \A k \in 1..Len(UdcProfiles[p].udc_coverage) :
                      UdcProfiles[p].udc_coverage[k].udc # merged_df.rows[r].udc

(***************************************************************************)
(* Properties of the Jaccard similarity                                    *)
(***************************************************************************)
JaccardDone == pc = "jaccard"

\* C13: the similarity is |A \cap B| / |A \cup B|, between 0 and 1; it is 1
\* for two equal non-empty sets and 0 for two empty sets
C13_JaccardBounds ==
    JaccardDone =>
        LET set_a == analysis_udc.set_a
            set_b == analysis_udc.set_b
            jaccard == analysis_udc.jaccard
        IN  /\ jaccard.den > 0
            /\ 0 <= jaccard.num /\ jaccard.num <= jaccard.den
            /\ set_a \cup set_b # {} =>
                  jaccard.num * Cardinality(set_a \cup set_b)
                      = Cardinality(set_a \cap set_b) * jaccard.den
            /\ (set_a = set_b /\ set_a # {}) => jaccard.num = jaccard.den
            /\ (set_a = {} /\ set_b = {}) => jaccard.num = 0

\* the similarity of two empty sets has been computed
C13_Witness ==
    /\ JaccardDone
    /\ analysis_udc.set_a = {}
    /\ analysis_udc.set_b = {}

\* C14: the similarity of A and B is the similarity of B and A
C14_JaccardSymmetric ==
    JaccardDone =>
        analysis_udc.jaccard =
            _calculate_jaccard_similarity(analysis_udc.set_b, analysis_udc.set_a)

\* the similarity of a set and a proper superset of it has been computed
C14_Witness ==
    /\ JaccardDone
    /\ analysis_udc.set_a # {}
    /\ analysis_udc.set_a \subseteq analysis_udc.set_b
    /\ analysis_udc.set_a # analysis_udc.set_b
    /\ analysis_udc.jaccard.num < analysis_udc.jaccard.den

(***************************************************************************)
(* Properties of the hierarchy                                             *)
(***************************************************************************)
Relationships == analysis_udc.equipment_hierarchy.parent_child_relationships

\* the codes of profile p that are core or common
CoreCommonCodes(p) ==
    {UdcProfiles[p].udc_coverage[k].udc :
        k \in {m \in 1..Len(UdcProfiles[p].udc_coverage) :
                  UdcProfiles[p].udc_coverage[m].class \in {"core", "common"}}}

\* the relationships reported between the types of profiles p and q
EdgesBetween(p, q) ==
    {r \in 1..Len(Relationships) :
        {Relationships[r].parent_id, Relationships[r].child_id}
            = {UdcProfiles[p].equipment_type_id, UdcProfiles[q].equipment_type_id}}

\* |A \cap B| / |A \cup B| > 0.60 for the core and common codes of p and q
OverHierarchyThreshold(p, q) ==
    5 * Cardinality(CoreCommonCodes(p) \cap CoreCommonCodes(q))
        > 3 * Cardinality(CoreCommonCodes(p) \cup CoreCommonCodes(q))

\* C15: two distinct types are related exactly when the similarity of their
\* core and common codes is above 0.60; the parent has the larger facility
\* count and shared_udcs is the intersection of the two sets
C15_HierarchyEdges ==
    Phase3Full =>
        \A p, q \in 1..Len(UdcProfiles) :
            p # q =>
                /\ EdgesBetween(p, q) # {} <=> OverHierarchyThreshold(p, q)
                /\ \A r \in EdgesBetween(p, q) :
                      LET parent == IF Relationships[r].parent_id
                                          = UdcProfiles[p].equipment_type_id THEN p ELSE q
                          child == IF parent = p THEN q ELSE p
                      IN  /\ Relationships[r].child_id = UdcProfiles[child].equipment_type_id
                          /\ UdcProfiles[parent].facility_count
                                 >= UdcProfiles[child].facility_count
                          /\ Relationships[r].shared_udcs
                                 = CoreCommonCodes(p) \cap CoreCommonCodes(q)
                          /\ Relationships[r].shared_udc_count
                                 = Cardinality(CoreCommonCodes(p) \cap CoreCommonCodes(q))

\* a type of three facilities with three codes, related as parent to a type of
\* two facilities with two of the codes (2/3), and not related to a type at 3/5
C15_Witness ==
    /\ Phase3Full
    /\ \E p, q, o \in 1..Len(UdcProfiles) :
          /\ UdcProfiles[p].facility_count = 3
          /\ UdcProfiles[q].facility_count = 2
          /\ Cardinality(CoreCommonCodes(p)) = 3
          /\ Cardinality(CoreCommonCodes(q)) = 2
          /\ \E r \in EdgesBetween(p, q) :
                /\ Relationships[r].parent_id = UdcProfiles[p].equipment_type_id
                /\ Relationships[r].similarity = 667
                /\ Relationships[r].shared_udcs = CoreCommonCodes(q)
          /\ 5 * Cardinality(CoreCommonCodes(p) \cap CoreCommonCodes(o))
                 = 3 * Cardinality(CoreCommonCodes(p) \cup CoreCommonCodes(o))
          /\ CoreCommonCodes(o) # {}
          /\ EdgesBetween(p, o) = {}

\* the unordered pairs of profiles whose similarity is above the threshold
QualifyingPairs ==
    {pair \in SUBSET (1..Len(UdcProfiles)) :
        /\ Cardinality(pair) = 2
        /\ \E p, q \in pair : p < q /\ OverHierarchyThreshold(p, q)}

\* C16: no two relationships are about the same pair of types, in either
\* direction, and total_relationships is the number of qualifying pairs
C16_PairsReportedOnce ==
    Phase3Full =>
        /\ \A p, q \in 1..Len(UdcProfiles) :
              p < q => Cardinality(EdgesBetween(p, q)) <= 1
        /\ analysis_udc.equipment_hierarchy.total_relationships = Cardinality(QualifyingPairs)

(***************************************************************************)
(* Properties of the consolidation                                         *)
(***************************************************************************)
MergedGroups == analysis_udc.consolidated_groups.merged_groups

UnchangedGroups == analysis_udc.consolidated_groups.unchanged_groups

ConsolidationSummary == analysis_udc.consolidated_groups.consolidation_summary

ProfiledIds == {UdcProfiles[p].equipment_type_id : p \in 1..Len(UdcProfiles)}

\* the position of a profiled type in the scan
ScanPosition(eq_id) == CHOOSE p \in 1..Len(UdcProfiles) : UdcProfiles[p].equipment_type_id = eq_id

\* every code of the profile of a type, whatever its class
AllTierCodes(eq_id) ==
    {UdcProfiles[ScanPosition(eq_id)].udc_coverage[k].udc :
        k \in 1..Len(UdcProfiles[ScanPosition(eq_id)].udc_coverage)}

\* 5 * |A \cap B| - 4 * |A \cup B| over all codes of the two types: zero at a
\* similarity of exactly 0.80, positive above; two empty sets have similarity 0
MergeMargin(eq_a, eq_b) ==
    IF AllTierCodes(eq_a) \cup AllTierCodes(eq_b) = {} THEN -1
    ELSE 5 * Cardinality(AllTierCodes(eq_a) \cap AllTierCodes(eq_b))
             - 4 * Cardinality(AllTierCodes(eq_a) \cup AllTierCodes(eq_b))

\* the ids merged by the groups before position g
MergedBefore(g) ==
    UNION {Range(MergedGroups[h].merged_from) : h \in 1..(g - 1)}

C18_OneMergePerType ==
    Phase3Full =>
        /\ \A g \in 1..Len(MergedGroups) :
              /\ Len(MergedGroups[g].merged_from) = 2
              /\ MergedGroups[g].merged_from[1] # MergedGroups[g].merged_from[2]
        /\ \A g, h \in 1..Len(MergedGroups) :
              g # h => Range(MergedGroups[g].merged_from)
                           \cap Range(MergedGroups[h].merged_from) = {}
        /\ MergedBefore(Len(MergedGroups) + 1) \cap Range(UnchangedGroups) = {}
        /\ MergedBefore(Len(MergedGroups) + 1) \cup Range(UnchangedGroups) = ProfiledIds
        /\ \A g \in 1..Len(MergedGroups) :
              LET a == MergedGroups[g].merged_from[1]
                  b == MergedGroups[g].merged_from[2]
              IN  /\ ScanPosition(a) < ScanPosition(b)
                  /\ \A c \in ProfiledIds :
                        (ScanPosition(a) < ScanPosition(c) /\ ScanPosition(c) < ScanPosition(b))
                            => (MergeMargin(a, c) < 0 \/ c \in MergedBefore(g))

\* three types with the same codes: the first two are merged and the third,
\* as similar to both, is left unchanged
C18_Witness ==
    /\ Phase3Full
    /\ Len(UdcProfiles) = 3
    /\ \A a, b \in ProfiledIds : a # b => MergeMargin(a, b) > 0
    /\ Len(MergedGroups) = 1
    /\ MergedGroups[1].merged_from
           = <<UdcProfiles[1].equipment_type_id, UdcProfiles[2].equipment_type_id>>
    /\ UnchangedGroups = <<UdcProfiles[3].equipment_type_id>>

\* C19: when no two types have a similarity of 0.80 or more over all their
\* codes, nothing is merged, every type is listed as unchanged and after = before
C19_NothingToMerge ==
    (Phase3Full /\ \A a, b \in ProfiledIds : a # b => MergeMargin(a, b) < 0) =>
        /\ MergedGroups = <<>>
        /\ ConsolidationSummary.merged = 0
        /\ Range(UnchangedGroups)
               = {Phase3Types[t].equipment_type_id : t \in 1..Len(Phase3Types)}
        /\ ConsolidationSummary.after = ConsolidationSummary.before

(***************************************************************************)
(* Properties of the confidence analysis                                   *)
(***************************************************************************)
ConfidenceAnalysis == analysis_udc.confidence_analysis

\* the profiles whose equipment type Phase 2 gave the tier
ProfilesOfTier(tier) ==
    {p \in 1..Len(UdcProfiles) : TypeOf(p).confidence = tier}

\* C20: each profile whose type has tier high, medium or low is counted in the
\* bucket of that tier, and the three counts add up to the number of such
\* profiles
C20_BucketsByPhase2Tier ==
    Phase3Full =>
        /\ ConfidenceAnalysis.high_confidence.count = Cardinality(ProfilesOfTier("high"))
        /\ ConfidenceAnalysis.medium_confidence.count = Cardinality(ProfilesOfTier("medium"))
        /\ ConfidenceAnalysis.low_confidence.count = Cardinality(ProfilesOfTier("low"))
        /\ ConfidenceAnalysis.high_confidence.count
               + ConfidenceAnalysis.medium_confidence.count
               + ConfidenceAnalysis.low_confidence.count
             = Cardinality(ProfilesOfTier("high") \cup ProfilesOfTier("medium")
                               \cup ProfilesOfTier("low"))

(***************************************************************************)
(* Properties of the entry checks of Phase 3                               *)
(***************************************************************************)
Phase3Done == pc = "phase3"

\* the join table is missing or unreadable, or Phase 2 handed over no type
Phase3EntryFails ==
    \/ merged_df.status \in {"missing", "unreadable"}
    \/ Get(analysis_descriptions, "assumed_equipment_types", <<>>) = <<>>

\* C21: without a readable join table or without equipment types Phase 3
\* returns an error with a message and nothing else of a result: no profiles,
\* no hierarchy, no consolidation, no tree path; no exception leaves the call
\* and no tree file is written
C21_FailFast ==
    (Phase3Done /\ Phase3EntryFails) =>
        /\ "error" \in DOMAIN analysis_udc
        /\ analysis_udc # Raised
        /\ DOMAIN analysis_udc \subseteq {"error", "recommendation"}
        /\ hierarchy_txt = NotRun

\* an unreadable join table with an equipment type handed over
C21_Witness ==
    /\ Phase3Done
    /\ merged_df.status = "unreadable"
    /\ analysis_descriptions.assumed_equipment_types # <<>>
    /\ analysis_udc = [error |-> "Failed to load merged dataset"]

(***************************************************************************)
(* Properties of the entry check of Phase 2                                *)
(***************************************************************************)
\* the group list Phase 2 reads from the Phase 1 result
ReceivedGroups == Get(analysis_attributes, "assumed_facility_groups", <<>>)

\* C22: given an empty group list, Phase 2 returns an error result and not a
\* result with an empty list of equipment types
C22_EmptyGroupsRejected ==
    (Phase2Done /\ ReceivedGroups = <<>>) =>
        /\ "error" \in DOMAIN analysis_descriptions
        /\ "assumed_equipment_types" \notin DOMAIN analysis_descriptions

(***************************************************************************)
(* Properties of the tree output                                           *)
(***************************************************************************)
\* Phase 3 got past its entry checks and no tree file was written
TreeNotWritten == Phase3Done /\ ~Phase3EntryFails /\ hierarchy_txt = NotRun

\* what the call returns when the tree is written
ReturnedWithTree ==
    analyze_udc_bridge(merged_df, analysis_descriptions, output_detail.udc, "written")

\* C23: when the directory cannot be made or the file cannot be written, the
\* call still returns its result, with the failure in hierarchy_tree_path and
\* everything else as it is when the tree is written
C23_TreeFailureReported ==
    TreeNotWritten =>
        /\ analysis_udc # Raised
        /\ "hierarchy_tree_path" \in DOMAIN analysis_udc
        /\ analysis_udc.hierarchy_tree_path # hierarchy_tree_path
        /\ \E returned \in {ReturnedWithTree} :
              \A k \in DOMAIN returned \ {"hierarchy_tree_path"} :
                 k \in DOMAIN analysis_udc /\ analysis_udc[k] = returned[k]

(***************************************************************************)
(* Properties of the root and isolated lists                               *)
(***************************************************************************)
RootNodes == Range(analysis_udc.equipment_hierarchy.root_nodes)

IsolatedNodes == Range(analysis_udc.equipment_hierarchy.isolated_nodes)

\* the types that are the parent, and the child, of a reported relationship
ParentsReported == {Relationships[r].parent_id : r \in 1..Len(Relationships)}

ChildrenReported == {Relationships[r].child_id : r \in 1..Len(Relationships)}

\* C24: the roots are the types in a relationship that are never a child, the
\* isolated types are those in no relationship, the two lists are disjoint,
\* and a type in neither list is the child of a relationship
C24_RootsAndIsolated ==
    Phase3Full =>
        /\ RootNodes \cup IsolatedNodes \subseteq ProfiledIds
        /\ \A e \in ProfiledIds :
              /\ e \in RootNodes <=>
                    e \in ParentsReported /\ e \notin ChildrenReported
              /\ e \in IsolatedNodes <=>
                    e \notin ParentsReported \cup ChildrenReported
              /\ e \notin RootNodes \cup IsolatedNodes => e \in ChildrenReported
        /\ RootNodes \cap IsolatedNodes = {}

\* a root, its child and an isolated type in one result
C24_Witness ==
    /\ Phase3Full
    /\ RootNodes # {}
    /\ IsolatedNodes # {}
    /\ ProfiledIds \ (RootNodes \cup IsolatedNodes) # {}

(***************************************************************************)
(* Properties of the rendered tree                                         *)
(***************************************************************************)
\* the types with a node line in the written file
RenderedIds ==
    {hierarchy_txt[l].eq_id : l \in {k \in 1..Len(hierarchy_txt) : hierarchy_txt[k].kind = "node"}}

\* C25: every profiled type has a node line in the written tree
C25_EveryTypeRendered ==
    (Phase3Full /\ hierarchy_txt # NotRun) => ProfiledIds \subseteq RenderedIds

(***************************************************************************)
(* Properties of the consolidation output taken as a second input          *)
(***************************************************************************)
\* the groups a pass leaves: an unchanged type with its own codes of every
\* tier, a merged group with the union of the codes of its two sources
ResultingGroups ==
    { [id |-> e, merged |-> FALSE, codes |-> AllTierCodes(e)] : e \in Range(UnchangedGroups) }
    \cup { [ id |-> MergedGroups[g].new_group_id,
             merged |-> TRUE,
             codes |-> AllTierCodes(MergedGroups[g].merged_from[1])
                          \cup AllTierCodes(MergedGroups[g].merged_from[2]) ] :
           g \in 1..Len(MergedGroups) }

\* |A \cap B| / |A \cup B| >= 0.80, with 0 for two empty sets
AtMergeThreshold(codes_a, codes_b) ==
    /\ codes_a \cup codes_b # {}
    /\ 5 * Cardinality(codes_a \cap codes_b) >= 4 * Cardinality(codes_a \cup codes_b)

\* C26 as stated: no two groups a pass leaves are at 0.80 or above, so a
\* second pass merges nothing
C26_SecondPassMergesNothing ==
    Phase3Full =>
        \A g, h \in ResultingGroups :
            g # h => ~AtMergeThreshold(g.codes, h.codes)

\* C26 as the code has it: two groups a pass leaves at 0.80 or above are never
\* both unchanged types; a merged group can still qualify with another group
C26_SecondPassMergesOnlyMergedGroups ==
    Phase3Full =>
        \A g, h \in ResultingGroups :
            (g # h /\ AtMergeThreshold(g.codes, h.codes)) => g.merged \/ h.merged

\* a pass that merged two types and left a third whose codes are at 0.80 or
\* above with the union of the merged two
C26_Witness ==
    /\ Phase3Full
    /\ \E g, h \in ResultingGroups :
          /\ g.merged
          /\ ~h.merged
          /\ h.codes # {}
          /\ AtMergeThreshold(g.codes, h.codes)

(***************************************************************************)
(* Properties of the consolidation summary                                 *)
(***************************************************************************)
\* C27: merged is twice the number of merged groups, after is before less the
\* number of merged groups, and before is the number of types handed over
C27_SummaryConsistent ==
    Phase3Full =>
        /\ ConsolidationSummary.merged = 2 * Len(MergedGroups)
        /\ ConsolidationSummary.after = ConsolidationSummary.before - Len(MergedGroups)
        /\ ConsolidationSummary.before = Len(Phase3Types)

(***************************************************************************)
(* Properties of Phase 2 under the iteration order of the column set       *)
(***************************************************************************)
\* per group the ordered top keywords, and per type its top three keywords
\* and its suggested name, when the analysis columns are visited in the order
\* available_cols
KeywordOutcome(available_cols) ==
    LET returned == analyze_fac_descriptions(fac_df, fac_summary, analysis_attributes,
                                             available_cols, "full")
        groups == returned.keyword_extraction.groups
        types == returned.assumed_equipment_types
    IN  [ top_keywords |->
              [g \in 1..Len(groups) |->
                  [k \in 1..Len(groups[g].top_keywords) |-> groups[g].top_keywords[k].word]],
          types |->
              [t \in 1..Len(types) |->
                  [keywords |-> types[t].keywords, suggested_name |-> types[t].suggested_name]] ]

\* the outcomes over every order the column set can be iterated in
KeywordOutcomes ==
    {KeywordOutcome(available_cols) :
        available_cols \in SetOrders(fac_df, AnalysisColumns(fac_df, analysis_attributes))}

\* C28: whatever the order the analysis columns are visited in, Phase 2
\* gives the same ordered top keywords, top three keywords and names
C28_Phase2Deterministic ==
    pc = "phase1" => Cardinality(KeywordOutcomes) = 1

(***************************************************************************)
(* Properties of the warning of a profile                                  *)
(***************************************************************************)
\* C29: a profile has the warning exactly when it has no distinct code
C29_WarningIffNoCodes ==
    Phase3Full =>
        \A p \in 1..Len(UdcProfiles) :
            "warning" \in DOMAIN UdcProfiles[p] <=> UdcProfiles[p].distinct_udcs = 0

(***************************************************************************)
(* Properties of the hand-off from Phase 1 to Phase 2                      *)
(***************************************************************************)
\* C30: at every detail level of Phase 1, Phase 2 returns one equipment type
\* per group Phase 1 found, with the id and the member ids of the group
C30_HandoffAtEveryDetail ==
    Phase2Done =>
        /\ Len(analysis_descriptions.assumed_equipment_types) = Len(EmittedGroups)
        /\ \A g \in 1..Len(EmittedGroups) :
              LET type == analysis_descriptions.assumed_equipment_types[g]
                  facilities == EmittedGroups[g].facilities
              IN  /\ type.equipment_type_id = EmittedGroups[g].group_id
                  /\ type.facility_ids = [m \in 1..Len(facilities) |-> Str(facilities[m].id)]

====
